---- MODULE Spec2Model ----
(***************************************************************************)
(* SentimentPulse: the Dashboard's tracking of assets, the SearchModal's   *)
(* filter, the Subscription page's promo code and the useDataRefresh hook, *)
(* as state machines over the backend SDK's collections.                   *)
(*                                                                         *)
(* Strings are sequences of one-character strings, so that toUpperCase,    *)
(* toLowerCase, trim and includes are computed and not assumed.  Numbers   *)
(* with a fraction are integers in hundredths (sentimentScore 0.5 is 50).  *)
(***************************************************************************)
EXTENDS Integers, Sequences, FiniteSets, TLC

VARIABLES
    \* ---- backend (lumi.entities.*) ----
    sdkAssets,        \* lumi.entities.assets: the list assets.list() returns
    store,            \* lumi.entities.userAssets: the list userAssets.list() returns
    nextId,           \* next _id the backend hands out on create
    \* ---- useAuth ----
    user,             \* user.userId, or NoUser
    isAuthenticated,
    \* ---- Dashboard state ----
    assets,           \* useState<Asset[]>
    userAssets,       \* useState<UserAsset[]>
    trackedAssets,    \* useState<Asset[]>
    dashSearch,       \* Dashboard's searchTerm
    loading,          \* Dashboard's loading
    calls,            \* in-flight async handler calls of the Dashboard
    driveTracked,     \* trackedAssets last synced by googleDriveService.syncTrackedAssets
    createdIds,       \* history: _ids created by handleTrackAsset
    sdkFailed,        \* history: an SDK call of the Dashboard has been rejected
    \* ---- SearchModal state ----
    showSearchModal,  \* Dashboard's showSearchModal: the modal is mounted
    modalAssets,      \* SearchModal's assets
    modalLoading,     \* SearchModal's loading
    filteredAssets,
    modalSearch,      \* SearchModal's searchTerm
    selectedType,
    sortBy,
    minPrice,
    maxPrice,
    bulkMode,
    selectedAssets,   \* Set<string> of symbols
    passedTracked,    \* history: onTrackAsset was given an asset isAssetTracked holds for
    bulkCalls,        \* the handleTrackMultipleAssets calls made so far, each with its position
    \* ---- AssetCard (one card) and the LanguageContext ----
    cardMounted,      \* the card is rendered
    cardScore,        \* asset.sentimentScore of the card's asset, in hundredths
    language,         \* LanguageContext's language
    cardView,         \* what the card shows for the sentiment: classes and text
    \* ---- Subscription page ----
    subscriptions,        \* lumi.entities.subscriptions: what subscriptions.list() returns
    nextSubId,            \* next _id the backend hands out on create
    currentSubscription,  \* useState<Subscription | null>
    subLoading,           \* Subscription's loading
    promoCode,            \* the promo input's text
    showPromoInput,
    promoCalls,           \* the handlePromoCode calls made so far, each with its position
    \* ---- useDataRefresh (one instance of the hook) ----
    mounted,          \* the component using the hook is mounted
    autoRefresh,
    refreshInterval,  \* milliseconds
    isRefreshing,
    lastRefresh,      \* a Date, as the clock's reading
    timers,           \* the live setInterval timers of the instance: [id, period]
    nextTimerId,
    now,              \* the clock new Date() reads
    runs,             \* the refreshData runs started so far, each with its position
    lastRefreshBy,    \* history: the run whose setLastRefresh was the last one, or 0
    \* ---- googleDriveService ----
    localStorage,     \* window.localStorage: what getItem returns for each key
    loadResult,       \* what the last loadUserData call returned, and for whom
    setItemThrew,     \* history: the users whose last saveUserData a throwing setItem cut short
    \* ---- ForecastingEngine ----
    config,           \* the engine's ForecastingConfig
    forecastCall,     \* the last generateForecast call: its asset and the config it read
    forecast,         \* what the last generateForecast call returned
    \* ---- useTheme ----
    prefersDark,      \* matchMedia('(prefers-color-scheme: dark)').matches
    rootClasses,      \* the theme classes of document.documentElement
    bodyClasses,      \* the theme classes of document.body
    appMounted,       \* AppContent is mounted
    appTheme,         \* theme of AppContent's useTheme instance
    settingsMounted,  \* the Settings page is mounted
    settingsTheme,    \* theme of Settings' useTheme instance
    \* ---- useAlerts ----
    alertStore,       \* lumi.entities.alerts: the list alerts.list() returns
    alerts,           \* useState<Alert[]>
    monitorCalls,     \* the monitorAlerts calls made so far, each with its position
    notifications,    \* history: the alert ids a notification was shown for, in order
    \* ---- APIService ----
    lastRequestTimes, \* Map<string, number[]>: per service, the request times kept
    requestCache,     \* Map<string, {data, timestamp}>: per cache key, the entry or Absent
    apiCalls,         \* the get*Data calls made so far, each with its position
    passedRequests,   \* history: per service, the times checkRateLimit returned at
    cacheStores       \* history: the setCache calls made, in order: key, time and data

dashVars == <<sdkAssets, store, nextId, user, isAuthenticated, assets, userAssets,
              trackedAssets, dashSearch, loading, calls, driveTracked, createdIds, sdkFailed>>

modalVars == <<showSearchModal, modalAssets, modalLoading, filteredAssets, modalSearch,
               selectedType, sortBy, minPrice, maxPrice, bulkMode, selectedAssets,
               passedTracked>>

\* the SearchModal's state but filteredAssets
modalButFiltered == <<showSearchModal, modalAssets, modalLoading, modalSearch, selectedType,
                      sortBy, minPrice, maxPrice, bulkMode, selectedAssets, passedTracked>>

promoVars == <<subscriptions, nextSubId, currentSubscription, subLoading, promoCode,
               showPromoInput, promoCalls>>

refreshVars == <<mounted, autoRefresh, refreshInterval, isRefreshing, lastRefresh, timers,
                 nextTimerId, now, runs, lastRefreshBy>>

driveVars == <<localStorage, loadResult, setItemThrew>>

forecastVars == <<config, forecastCall, forecast>>

themeVars == <<prefersDark, rootClasses, bodyClasses, appMounted, appTheme, settingsMounted,
               settingsTheme>>

alertVars == <<alertStore, alerts, monitorCalls, notifications>>

apiVars == <<lastRequestTimes, requestCache, apiCalls, passedRequests, cacheStores>>

bulkVars == <<bulkCalls>>

cardVars == <<cardMounted, cardScore, language, cardView>>

\* the services and hooks that keep state of their own
serviceVars == <<driveVars, forecastVars, themeVars, alertVars, apiVars>>

\* the state of the pages other than the Dashboard and its modal
restVars == <<bulkVars, cardVars, promoVars, refreshVars, serviceVars>>

\* the state of the pages
pageVars == <<dashVars, modalVars, bulkVars, cardVars, promoVars, refreshVars>>

vars == <<dashVars, modalVars, restVars>>

\* ------------------------------------------------------------------ strings

LowerChars == <<"a", "b", "c", "e", "f", "h", "i", "r", "s", "t">>
UpperChars == <<"A", "B", "C", "E", "F", "H", "I", "R", "S", "T">>

\* String.prototype.toUpperCase, one character
UpperChar(c) ==
    IF \E i \in 1..Len(LowerChars) : LowerChars[i] = c
    THEN UpperChars[CHOOSE i \in 1..Len(LowerChars) : LowerChars[i] = c]
    ELSE c

\* String.prototype.toLowerCase, one character
LowerChar(c) ==
    IF \E i \in 1..Len(UpperChars) : UpperChars[i] = c
    THEN LowerChars[CHOOSE i \in 1..Len(UpperChars) : UpperChars[i] = c]
    ELSE c

toUpperCase(s) == [i \in 1..Len(s) |-> UpperChar(s[i])]
toLowerCase(s) == [i \in 1..Len(s) |-> LowerChar(s[i])]

RECURSIVE TrimStart(_)
TrimStart(s) == IF s # <<>> /\ Head(s) = " " THEN TrimStart(Tail(s)) ELSE s

RECURSIVE TrimEnd(_)
TrimEnd(s) ==
    IF s # <<>> /\ s[Len(s)] = " " THEN TrimEnd(SubSeq(s, 1, Len(s) - 1)) ELSE s

\* String.prototype.trim
trim(s) == TrimEnd(TrimStart(s))

\* String.prototype.includes
includes(s, t) ==
    \E i \in 0..(Len(s) - Len(t)) : SubSeq(s, i + 1, i + Len(t)) = t

\* symbol.toUpperCase().trim(), the key every Dashboard comparison uses
normalizedSymbol(sym) == trim(toUpperCase(sym))

\* Array.prototype.includes on an array of strings
arrayIncludes(arr, x) == \E i \in 1..Len(arr) : arr[i] = x

\* [...new Set(arr)]: first occurrences, in order
RECURSIVE uniqueFrom(_, _)
uniqueFrom(arr, out) ==
    IF arr = <<>> THEN out
    ELSE uniqueFrom(Tail(arr),
                    IF arrayIncludes(out, Head(arr)) THEN out ELSE Append(out, Head(arr)))

unique(arr) == uniqueFrom(arr, <<>>)

\* ------------------------------------------------------------------ data

NoUser == "null"
Users == {"u1", "u2"}

BTC == <<"B", "T", "C">>
btc == <<"b", "t", "c">>
ETHsp == <<" ", "E", "T", "H">>
TSYM == <<"T">>

\* The asset records the backend may return.  Scores are in hundredths.
Catalog ==
    { [_id |-> "a1", symbol |-> BTC, name |-> <<"B", "i", "t">>, type |-> "crypto",
       currentPrice |-> 30, priceChange24h |-> 1, sentimentScore |-> 80,
       confidenceLevel |-> 90],
      [_id |-> "a2", symbol |-> btc, name |-> <<"b", "i", "t">>, type |-> "crypto",
       currentPrice |-> 20, priceChange24h |-> -1, sentimentScore |-> 60,
       confidenceLevel |-> 50],
      [_id |-> "a3", symbol |-> ETHsp, name |-> <<"E", "t", "h">>, type |-> "crypto",
       currentPrice |-> 5, priceChange24h |-> 0, sentimentScore |-> -40,
       confidenceLevel |-> 70],
      [_id |-> "a4", symbol |-> TSYM, name |-> <<"T", "e", "s">>, type |-> "stock",
       currentPrice |-> 10, priceChange24h |-> 2, sentimentScore |-> 55,
       confidenceLevel |-> 40] }

MaxAssets == 2

SeqsUpTo(S, n) == UNION {[1..k -> S] : k \in 0..n}

\* what assets.list() may return: any list, repeated records included
AssetLists == SeqsUpTo({a \in Catalog : a._id # "a3"}, MaxAssets)

\* ------------------------------------------------------------------ Dashboard

\* deduplicateAssets: the loop over the list with its `seen` set
RECURSIVE deduplicateAssetsLoop(_, _, _)
deduplicateAssetsLoop(assetList, seen, uniqueAssets) ==
    IF assetList = <<>> THEN uniqueAssets
    ELSE LET asset == Head(assetList)
             key == trim(toUpperCase(asset.symbol))
         IN  IF key \notin seen
             THEN deduplicateAssetsLoop(Tail(assetList), seen \cup {key},
                                        Append(uniqueAssets, asset))
             ELSE deduplicateAssetsLoop(Tail(assetList), seen, uniqueAssets)

deduplicateAssets(assetList) == deduplicateAssetsLoop(assetList, {}, <<>>)

\* deduplicateUserAssets: key `${userId}-${SYMBOL}`, kept only when isTracked
RECURSIVE deduplicateUserAssetsLoop(_, _, _)
deduplicateUserAssetsLoop(userAssetList, seen, uniqueUserAssets) ==
    IF userAssetList = <<>> THEN uniqueUserAssets
    ELSE LET userAsset == Head(userAssetList)
             key == <<userAsset.userId, trim(toUpperCase(userAsset.assetSymbol))>>
         IN  IF key \notin seen /\ userAsset.isTracked
             THEN deduplicateUserAssetsLoop(Tail(userAssetList), seen \cup {key},
                                            Append(uniqueUserAssets, userAsset))
             ELSE deduplicateUserAssetsLoop(Tail(userAssetList), seen, uniqueUserAssets)

deduplicateUserAssets(userAssetList) == deduplicateUserAssetsLoop(userAssetList, {}, <<>>)

\* fetchAssets' result: deduplicate, enhance (the 52-week and all-time fields it
\* adds are display-only random numbers, not kept), deduplicate again
fetchAssetsResult(list) == deduplicateAssets(deduplicateAssets(list))

\* fetchUserAssets' result for the signed-in user
fetchUserAssetsResult(list, uid) ==
    deduplicateUserAssets(SelectSeq(list, LAMBDA ua : ua.userId = uid /\ ua.isTracked))

uaSymbol(ua) == normalizedSymbol(ua.assetSymbol)

\* getTrackedSymbols
getTrackedSymbols(uas) == unique([i \in 1..Len(uas) |-> uaSymbol(uas[i])])

\* findAsset with a substring match in place of ===
findAssetFuzzy(as, symbol) ==
    IF \E i \in 1..Len(as) : includes(symbol, normalizedSymbol(as[i].symbol))
    THEN CHOOSE i \in 1..Len(as) :
            /\ includes(symbol, normalizedSymbol(as[i].symbol))
            /\ \A j \in 1..(i - 1) : ~includes(symbol, normalizedSymbol(as[j].symbol))
    ELSE 0

\* assets.find(a => a.symbol.toUpperCase().trim() === symbol): index, 0 when none
findAsset(as, symbol) ==
    IF \E i \in 1..Len(as) : normalizedSymbol(as[i].symbol) = symbol
    THEN CHOOSE i \in 1..Len(as) :
            /\ normalizedSymbol(as[i].symbol) = symbol
            /\ \A j \in 1..(i - 1) : normalizedSymbol(as[j].symbol) # symbol
    ELSE 0

RECURSIVE updateTrackedLoop(_, _, _, _)
updateTrackedLoop(trackedSymbols, as, tracked, seenSymbols) ==
    IF trackedSymbols = <<>> THEN tracked
    ELSE LET symbol == Head(trackedSymbols)
             i == findAsset(as, symbol)
         IN  IF i # 0 /\ symbol \notin seenSymbols
             THEN updateTrackedLoop(Tail(trackedSymbols), as, Append(tracked, as[i]),
                                    seenSymbols \cup {symbol})
             ELSE updateTrackedLoop(Tail(trackedSymbols), as, tracked, seenSymbols)

\* updateTrackedAssets: the value it passes to setTrackedAssets
updateTrackedAssets(as, uas) ==
    updateTrackedLoop(getTrackedSymbols(uas), as, <<>>, {})

\* isAssetTracked, over the userAssets of the render that calls it
isAssetTrackedIn(uas, symbol) ==
    \E i \in 1..Len(uas) :
        trim(toUpperCase(uas[i].assetSymbol)) = normalizedSymbol(symbol)

isAssetTracked(symbol) == isAssetTrackedIn(userAssets, symbol)

\* filteredTrackedAssets (useMemo over trackedAssets and searchTerm)
filteredTrackedAssets ==
    deduplicateAssets(
        SelectSeq(trackedAssets, LAMBDA asset :
            \/ includes(toLowerCase(asset.symbol), toLowerCase(dashSearch))
            \/ includes(toLowerCase(asset.name), toLowerCase(dashSearch))))

\* ------------------------------------------------------------------ SearchModal

\* list.filter((asset, index, self) => index === self.findIndex(a => a.symbol === asset.symbol))
firstBySymbol(list) ==
    SelectSeq([i \in 1..Len(list) |-> [asset |-> list[i], index |-> i]],
              LAMBDA e : \A j \in 1..(e.index - 1) : list[j].symbol # e.asset.symbol)

dedupeBySymbol(list) ==
    [i \in 1..Len(firstBySymbol(list)) |-> firstBySymbol(list)[i].asset]

Digits == <<"0", "1", "2", "3", "4", "5", "6", "7", "8", "9">>

digitValue(ch) == CHOOSE d \in 0..9 : Digits[d + 1] = ch

RECURSIVE parseDigits(_, _)
parseDigits(s, acc) ==
    IF s = <<>> THEN acc ELSE parseDigits(Tail(s), acc * 10 + digitValue(Head(s)))

\* parseFloat of what an <input type="number"> holds: a numeral (the empty value
\* never reaches it, `if (minPrice)` is false for it)
parseFloat(s) == parseDigits(s, 0)

\* the type filter that lets every asset through
passesTypeAny(asset, type) == TRUE

\* if (selectedType !== 'all') filtered = filtered.filter(asset => asset.type === selectedType)
passesType(asset, type) == type # "all" => asset.type = type

\* if (minPrice) ... asset.currentPrice >= parseFloat(minPrice)
passesMinPrice(asset, minP) == minP # <<>> => asset.currentPrice >= parseFloat(minP)

\* if (maxPrice) ... asset.currentPrice <= parseFloat(maxPrice)
passesMaxPrice(asset, maxP) == maxP # <<>> => asset.currentPrice <= parseFloat(maxP)

\* if (searchTerm) ... symbol or name includes the term, all lower-cased
passesSearch(asset, term) ==
    term # <<>> =>
        \/ includes(toLowerCase(asset.symbol), toLowerCase(term))
        \/ includes(toLowerCase(asset.name), toLowerCase(term))

\* the comparator of filtered.sort: b's key minus a's key
sortKey(asset, sort) ==
    CASE sort = "price" -> asset.currentPrice
      [] sort = "change" -> asset.priceChange24h
      [] sort = "sentiment" -> asset.sentimentScore
      [] OTHER -> (asset.sentimentScore + 100) * asset.confidenceLevel

\* Array.prototype.sort is stable: an element goes after those it does not precede
insertSorted(sorted, asset, sort) ==
    LET before == {i \in 1..Len(sorted) : sortKey(sorted[i], sort) >= sortKey(asset, sort)}
        k == IF before = {} THEN 0 ELSE CHOOSE i \in before : \A j \in before : j <= i
    IN  SubSeq(sorted, 1, k) \o <<asset>> \o SubSeq(sorted, k + 1, Len(sorted))

RECURSIVE sortAssetsLoop(_, _, _)
sortAssetsLoop(list, sorted, sort) ==
    IF list = <<>> THEN sorted
    ELSE sortAssetsLoop(Tail(list), insertSorted(sorted, Head(list), sort), sort)

sortAssets(list, sort) == sortAssetsLoop(list, <<>>, sort)

\* filterAssets: what it hands to setFilteredAssets
filterAssets(as, trackedSymbols, type, minP, maxP, term, sort) ==
    LET uniqueTrackedSymbols == unique(trackedSymbols)
        filtered == SelectSeq(as, LAMBDA asset :
                        /\ ~arrayIncludes(uniqueTrackedSymbols, asset.symbol)
                        /\ passesType(asset, type)
                        /\ passesMinPrice(asset, minP)
                        /\ passesMaxPrice(asset, maxP)
                        /\ passesSearch(asset, term))
    IN  dedupeBySymbol(sortAssets(filtered, sort))

PopularLimit == 6

\* popularAssets, computed at every render
popularAssetsOf(as, trackedSymbols) ==
    LET popular == dedupeBySymbol(SelectSeq(as, LAMBDA asset :
                        /\ asset.sentimentScore > 50
                        /\ ~arrayIncludes(trackedSymbols, asset.symbol)))
    IN  SubSeq(popular, 1, IF Len(popular) < PopularLimit THEN Len(popular) ELSE PopularLimit)

popularAssets == popularAssetsOf(modalAssets, getTrackedSymbols(userAssets))

\* ---- what the backend's userAssets collection may hold at start ----

UserAssetTemplates ==
    { [userId |-> "u1", assetSymbol |-> BTC, isTracked |-> TRUE],
      [userId |-> "u1", assetSymbol |-> btc, isTracked |-> TRUE],
      [userId |-> "u1", assetSymbol |-> BTC, isTracked |-> FALSE],
      [userId |-> "u2", assetSymbol |-> BTC, isTracked |-> TRUE] }

MaxStore == 2

\* the backend gives every record its own _id
withIds(templates) ==
    [i \in 1..Len(templates) |->
        [_id |-> i, userId |-> templates[i].userId,
         assetSymbol |-> templates[i].assetSymbol, isTracked |-> templates[i].isTracked]]

StoreInits == {withIds(t) : t \in SeqsUpTo(UserAssetTemplates, MaxStore)}

SearchTerms == {<<>>, <<"t">>}

MaxCalls == 2
CallIds == 1..MaxCalls

\* creates are unbounded in the program; the model stops after this many
MaxCreates == 2

\* the bounds of the Dashboard explored over every backend content, one call at a time
DashCalls == 1
DashCreates == 1

IdleCall == [op |-> "none", pc |-> "idle", sym |-> <<>>, id |-> 0, solo |-> TRUE]

\* the useEffect on [isAuthenticated] has called fetchUserAssets()
MountCall == [op |-> "fetch", pc |-> "list", sym |-> <<>>, id |-> 0, solo |-> TRUE]

othersIdle(c) == \A d \in CallIds \ {c} : calls[d].pc = "idle"

\* a new call takes the first free slot
freeSlot(c) == calls[c].pc = "idle" /\ \A d \in 1..(c - 1) : calls[d].pc # "idle"

\* a call that starts while others run is not alone, and neither are they
startCall(c, rec) ==
    [d \in CallIds |->
        IF d = c THEN [rec EXCEPT !.solo = othersIdle(c)]
        ELSE IF calls[d].pc # "idle" THEN [calls[d] EXCEPT !.solo = FALSE]
        ELSE calls[d]]

\* currentSubscription === null
NoSub == [_id |-> 0]

\* the Subscription page is not mounted
SubscriptionUnmounted ==
    /\ subscriptions = <<>>
    /\ nextSubId = 1
    /\ currentSubscription = NoSub
    /\ subLoading = TRUE
    /\ promoCode = <<>>
    /\ showPromoInput = FALSE
    /\ promoCalls = <<>>

\* useState(2 * 60 * 1000)
DefaultRefreshInterval == 2 * 60 * 1000

\* no component uses the hook
RefreshUnmounted ==
    /\ mounted = FALSE
    /\ autoRefresh = TRUE
    /\ refreshInterval = DefaultRefreshInterval
    /\ isRefreshing = FALSE
    /\ lastRefresh = 0
    /\ timers = {}
    /\ nextTimerId = 1
    /\ now = 0
    /\ runs = <<>>
    /\ lastRefreshBy = 0

\* ---- googleDriveService: what localStorage holds ----

\* getItem's null: the key is not in the storage
Absent == [kind |-> "absent"]

\* the empty string
EmptyText == [kind |-> "text", json |-> FALSE, empty |-> TRUE]

\* a non-empty string JSON.parse throws on
CorruptText == [kind |-> "text", json |-> FALSE, empty |-> FALSE]

\* JSON.stringify(value): the text JSON.parse gives value back for
stringify(value) == [kind |-> "text", json |-> TRUE, empty |-> FALSE, value |-> value]

\* JSON.parse does not throw on the text
parseable(text) == text.kind = "text" /\ text.json

\* JSON.parse(text), of a text it does not throw on
parse(text) == text.value

\* if (data): null and the empty string are falsy
truthy(item) == item.kind = "text" /\ ~item.empty

\* the users whose data the service keeps
DriveUsers == {"u1", "u2"}

\* private storagePrefix
storagePrefix == "sentimentpulse_gdrive_"

getStorageKey(userId) == <<storagePrefix, userId>>

\* `${storageKey}_backup`
backupKey(storageKey) == Append(storageKey, "_backup")

DriveKeys == UNION {{getStorageKey(u), backupKey(getStorageKey(u))} : u \in DriveUsers}

\* the key useTheme keeps the theme under
ThemeKey == <<"sentimentpulse-theme">>

LanguageKey == <<"sentimentpulse-language">>

EmptyStorage == [k \in DriveKeys \cup {ThemeKey, LanguageKey} |-> Absent]

\* no loadUserData call has returned
NoResult == [userId |-> NoUser]

\* the service has not been used
DriveIdle ==
    /\ localStorage = EmptyStorage
    /\ loadResult = NoResult
    /\ setItemThrew = {}

\* ---- ForecastingEngine: its configuration, weights in hundredths ----

DefaultConfig ==
    [sentimentWeight |-> 35, technicalWeight |-> 30, volumeWeight |-> 20,
     socialWeight |-> 15, timeHorizon |-> 7]

\* generateForecast has not been called
NoForecast == [direction |-> "none"]

ForecastIdle ==
    /\ config = DefaultConfig
    /\ forecastCall = NoForecast
    /\ forecast = NoForecast

\* ---- useTheme ----

\* useState<'light' | 'dark'>('dark')
InitialTheme == "dark"

\* the application is not running
ThemeIdle ==
    /\ prefersDark = TRUE
    /\ rootClasses = {}
    /\ bodyClasses = {}
    /\ appMounted = FALSE
    /\ appTheme = InitialTheme
    /\ settingsMounted = FALSE
    /\ settingsTheme = InitialTheme

\* ---- useAlerts ----

\* no component uses the hook
AlertsIdle ==
    /\ alertStore = <<>>
    /\ alerts = <<>>
    /\ monitorCalls = <<>>
    /\ notifications = <<>>

\* ---- AssetCard ----

\* nothing is shown for the sentiment
NoView == [color |-> "", bg |-> "", text |-> ""]

\* no card is rendered
CardUnmounted ==
    /\ cardMounted = FALSE
    /\ cardScore = 0
    /\ language = "en"
    /\ cardView = NoView

\* ---- APIService ----

Services == {"coinGecko", "alphaVantage", "newsAPI"}

\* the service has made no request and cached nothing
ApiIdle ==
    /\ lastRequestTimes = [service \in Services |-> <<>>]
    /\ requestCache = <<>>
    /\ apiCalls = <<>>
    /\ passedRequests = [service \in Services |-> <<>>]
    /\ cacheStores = <<>>

\* the services and hooks are at rest
ServicesIdle == DriveIdle /\ ForecastIdle /\ ThemeIdle /\ AlertsIdle /\ ApiIdle

\* the pages other than the Dashboard are not mounted
RestIdle == SubscriptionUnmounted /\ RefreshUnmounted /\ ServicesIdle

\* the SearchModal is not mounted: its state is that of its useState initialisers
ModalClosed ==
    /\ showSearchModal = FALSE
    /\ modalAssets = <<>>
    /\ modalLoading = TRUE
    /\ filteredAssets = <<>>
    /\ modalSearch = <<>>
    /\ selectedType = "all"
    /\ sortBy = "popularity"
    /\ minPrice = <<>>
    /\ maxPrice = <<>>
    /\ bulkMode = FALSE
    /\ selectedAssets = {}
    /\ passedTracked = FALSE

DashInit ==
    /\ sdkAssets \in AssetLists
    /\ store \in StoreInits
    /\ nextId = Len(store) + 1
    /\ \E u \in {NoUser, "u1"} :
          /\ user = u
          /\ isAuthenticated = (u # NoUser)
          /\ calls = [c \in CallIds |-> IF c = 1 /\ u # NoUser THEN MountCall ELSE IdleCall]
    /\ assets = <<>>
    /\ userAssets = <<>>
    /\ trackedAssets = <<>>
    /\ dashSearch = <<>>
    /\ loading = TRUE
    /\ driveTracked = <<>>
    /\ createdIds = {}
    /\ sdkFailed = FALSE
    /\ bulkCalls = <<>>
    /\ CardUnmounted

\* fetchAssets, assets.list() resolved: setAssets, then the effect on
\* [assets, userAssets] runs updateTrackedAssets
FetchAssetsOk ==
    /\ loading
    /\ assets' = fetchAssetsResult(sdkAssets)
    /\ trackedAssets' = updateTrackedAssets(assets', userAssets)
    /\ loading' = FALSE
    /\ UNCHANGED <<sdkAssets, store, nextId, user, isAuthenticated, userAssets,
                   dashSearch, calls, driveTracked, createdIds, sdkFailed,
                   modalVars>>
    /\ UNCHANGED restVars

\* fetchAssets, assets.list() rejected: toast, finally setLoading(false)
FetchAssetsFail ==
    /\ loading
    /\ loading' = FALSE
    /\ sdkFailed' = TRUE
    /\ UNCHANGED <<sdkAssets, store, nextId, user, isAuthenticated, assets, userAssets,
                   trackedAssets, dashSearch, calls, driveTracked, createdIds,
                   modalVars>>
    /\ UNCHANGED restVars

\* the search box of the Dashboard
SetDashSearch(t) ==
    /\ dashSearch # t
    /\ dashSearch' = t
    /\ UNCHANGED <<sdkAssets, store, nextId, user, isAuthenticated, assets, userAssets,
                   trackedAssets, loading, calls, driveTracked, createdIds, sdkFailed,
                   modalVars>>
    /\ UNCHANGED restVars

\* handleTrackAsset's isAlreadyTracked
isAlreadyTracked(symbol) ==
    \E i \in 1..Len(userAssets) :
        /\ userAssets[i].userId = user
        /\ trim(toUpperCase(userAssets[i].assetSymbol)) = normalizedSymbol(symbol)
        /\ userAssets[i].isTracked

dashUnchangedButCalls ==
    UNCHANGED <<sdkAssets, store, nextId, user, isAuthenticated, assets, userAssets,
                trackedAssets, dashSearch, loading, driveTracked, createdIds, sdkFailed>>

\* handleTrackAsset, not signed in: toast.error, return
TrackSignInRequired(c, asset) ==
    /\ freeSlot(c)
    /\ ~isAuthenticated \/ user = NoUser
    /\ UNCHANGED vars

\* handleTrackAsset, the local userAssets already hold the symbol: toast.info, return
TrackAlreadyTracked(c, asset) ==
    /\ freeSlot(c)
    /\ isAuthenticated /\ user # NoUser
    /\ isAlreadyTracked(asset.symbol)
    /\ UNCHANGED vars

\* handleTrackAsset up to its first await: userAssets.create is in flight
TrackStart(c, asset) ==
    /\ freeSlot(c)
    /\ isAuthenticated /\ user # NoUser
    /\ ~isAlreadyTracked(asset.symbol)
    /\ calls' = startCall(c, [IdleCall EXCEPT !.op = "track", !.pc = "create",
                                              !.sym = asset.symbol])
    /\ dashUnchangedButCalls
    /\ UNCHANGED modalVars
    /\ UNCHANGED restVars

\* userAssets.create resolved: the backend holds the new record
TrackCreateOk(c, budget) ==
    /\ calls[c].pc = "create"
    /\ Cardinality(createdIds) < budget
    /\ store' = Append(store, [_id |-> nextId, userId |-> user,
                               assetSymbol |-> normalizedSymbol(calls[c].sym),
                               isTracked |-> TRUE])
    /\ nextId' = nextId + 1
    /\ createdIds' = createdIds \cup {nextId}
    /\ calls' = [calls EXCEPT ![c].pc = "list"]
    /\ UNCHANGED <<sdkAssets, user, isAuthenticated, assets, userAssets, trackedAssets,
                   dashSearch, loading, driveTracked, sdkFailed,
                   modalVars>>
    /\ UNCHANGED restVars

\* userAssets.create or userAssets.delete rejected: the handler's catch, toast.error
WriteFail(c) ==
    /\ calls[c].pc \in {"create", "delete"}
    /\ calls' = [calls EXCEPT ![c] = IdleCall]
    /\ sdkFailed' = TRUE
    /\ UNCHANGED <<sdkAssets, store, nextId, user, isAuthenticated, assets, userAssets,
                   trackedAssets, dashSearch, loading, driveTracked, createdIds,
                   modalVars>>
    /\ UNCHANGED restVars

\* fetchUserAssets, userAssets.list() resolved: setUserAssets, the effect's
\* updateTrackedAssets, syncTrackedAssets; then the caller's toast.success.  A mounted
\* SearchModal gets the new trackedSymbols and its effect runs filterAssets
FetchUserAssetsOk(c) ==
    /\ calls[c].pc = "list"
    /\ userAssets' = fetchUserAssetsResult(store, user)
    /\ trackedAssets' = updateTrackedAssets(assets, userAssets')
    /\ driveTracked' = getTrackedSymbols(userAssets')
    /\ calls' = [calls EXCEPT ![c] = IdleCall]
    /\ filteredAssets' =
          IF showSearchModal
          THEN filterAssets(modalAssets, getTrackedSymbols(userAssets'), selectedType,
                            minPrice, maxPrice, modalSearch, sortBy)
          ELSE filteredAssets
    /\ UNCHANGED <<sdkAssets, store, nextId, user, isAuthenticated, assets, dashSearch,
                   loading, createdIds, sdkFailed, modalButFiltered>>
    /\ UNCHANGED restVars

\* fetchUserAssets, userAssets.list() rejected: caught inside fetchUserAssets, so
\* the caller goes on to its toast.success
FetchUserAssetsFail(c) ==
    /\ calls[c].pc = "list"
    /\ calls' = [calls EXCEPT ![c] = IdleCall]
    /\ sdkFailed' = TRUE
    /\ UNCHANGED <<sdkAssets, store, nextId, user, isAuthenticated, assets, userAssets,
                   trackedAssets, dashSearch, loading, driveTracked, createdIds,
                   modalVars>>
    /\ UNCHANGED restVars

\* handleUntrackAsset's userAssets.find: index, 0 when none
findUserAsset(symbol) ==
    IF \E i \in 1..Len(userAssets) :
          /\ userAssets[i].userId = user
          /\ trim(toUpperCase(userAssets[i].assetSymbol)) = normalizedSymbol(symbol)
    THEN CHOOSE i \in 1..Len(userAssets) :
          /\ userAssets[i].userId = user
          /\ trim(toUpperCase(userAssets[i].assetSymbol)) = normalizedSymbol(symbol)
          /\ \A j \in 1..(i - 1) :
                ~(/\ userAssets[j].userId = user
                  /\ trim(toUpperCase(userAssets[j].assetSymbol)) = normalizedSymbol(symbol))
    ELSE 0

\* handleUntrackAsset without a user, or with no local record: nothing happens
UntrackNothing(c, asset) ==
    /\ freeSlot(c)
    /\ user = NoUser \/ findUserAsset(asset.symbol) = 0
    /\ UNCHANGED vars

\* handleUntrackAsset up to its first await: userAssets.delete(_id) is in flight
UntrackStart(c, asset) ==
    /\ freeSlot(c)
    /\ user # NoUser
    /\ findUserAsset(asset.symbol) # 0
    /\ calls' = startCall(c, [IdleCall EXCEPT !.op = "untrack", !.pc = "delete",
                                              !.sym = asset.symbol,
                                              !.id = userAssets[findUserAsset(asset.symbol)]._id])
    /\ dashUnchangedButCalls
    /\ UNCHANGED modalVars
    /\ UNCHANGED restVars

\* userAssets.delete resolved: the record with that _id is gone
UntrackDeleteOk(c) ==
    /\ calls[c].pc = "delete"
    /\ store' = SelectSeq(store, LAMBDA r : r._id # calls[c].id)
    /\ calls' = [calls EXCEPT ![c].pc = "list"]
    /\ UNCHANGED <<sdkAssets, nextId, user, isAuthenticated, assets, userAssets,
                   trackedAssets, dashSearch, loading, driveTracked, createdIds, sdkFailed,
                   modalVars>>
    /\ UNCHANGED restVars

\* the assets a handler can be called with: those assets.list() returns
CallableAssets == {sdkAssets[i] : i \in 1..Len(sdkAssets)}

DashNextOn(slots, budget) ==
    \/ FetchAssetsOk
    \/ FetchAssetsFail
    \/ \E t \in SearchTerms : SetDashSearch(t)
    \/ \E c \in slots, a \in CallableAssets : TrackSignInRequired(c, a)
    \/ \E c \in slots, a \in CallableAssets : TrackAlreadyTracked(c, a)
    \/ \E c \in slots, a \in CallableAssets : TrackStart(c, a)
    \/ \E c \in slots : TrackCreateOk(c, budget)
    \/ \E c \in slots : WriteFail(c)
    \/ \E c \in slots : FetchUserAssetsOk(c)
    \/ \E c \in slots : FetchUserAssetsFail(c)
    \/ \E c \in slots, a \in CallableAssets : UntrackNothing(c, a)
    \/ \E c \in slots, a \in CallableAssets : UntrackStart(c, a)
    \/ \E c \in slots : UntrackDeleteOk(c)

\* every backend content, one handler call at a time
DashNext == DashNextOn(1..DashCalls, DashCreates)

DashOnlyInit == DashInit /\ ModalClosed /\ RestIdle

SpecDash == DashOnlyInit /\ [][DashNext]_vars

\* overlapping handler calls, over the two assets that share a symbol and the
\* signed-in user's tracked records
TrackAssetLists ==
    {l \in AssetLists : Len(l) = 2 /\ {l[1]._id, l[2]._id} = {"a1", "a2"}}

TrackInit ==
    /\ DashInit
    /\ ModalClosed
    /\ RestIdle
    /\ sdkAssets \in TrackAssetLists
    /\ \A i \in 1..Len(store) : store[i].userId = "u1" /\ store[i].isTracked

TrackNext == DashNextOn(CallIds, MaxCreates)

SpecTrack == TrackInit /\ [][TrackNext]_vars

\* ------------------------------------------------------------------ SearchModal actions

\* the trackedSymbols prop: getTrackedSymbols() of the Dashboard's render
trackedSymbolsProp == getTrackedSymbols(userAssets)

ModalTerms == {<<>>, <<"B">>}
ModalTypes == {"all", "stock", "crypto"}
SortOptions == {"popularity", "price", "change", "sentiment"}
PriceInputs == {<<>>, <<"2", "0">>}

\* the effect on [searchTerm, assets, selectedType, trackedSymbols, sortBy, minPrice,
\* maxPrice]: filterAssets over the state after the update
filterEffect ==
    filteredAssets' = filterAssets(modalAssets', trackedSymbolsProp, selectedType',
                                   minPrice', maxPrice', modalSearch', sortBy')

\* the Dashboard's "add asset" buttons: the modal mounts and starts fetchAssets
OpenSearchModal ==
    /\ ~showSearchModal
    /\ showSearchModal' = TRUE
    /\ UNCHANGED <<dashVars, modalAssets, modalLoading, filteredAssets, modalSearch,
                   selectedType, sortBy, minPrice, maxPrice, bulkMode, selectedAssets,
                   passedTracked>>
    /\ UNCHANGED restVars

\* onClose: the modal unmounts, its state is gone
CloseSearchModal ==
    /\ showSearchModal
    /\ showSearchModal' = FALSE
    /\ modalAssets' = <<>>
    /\ modalLoading' = TRUE
    /\ filteredAssets' = <<>>
    /\ modalSearch' = <<>>
    /\ selectedType' = "all"
    /\ sortBy' = "popularity"
    /\ minPrice' = <<>>
    /\ maxPrice' = <<>>
    /\ bulkMode' = FALSE
    /\ selectedAssets' = {}
    /\ UNCHANGED <<dashVars, passedTracked>>
    /\ UNCHANGED restVars

\* SearchModal's fetchAssets, assets.list() resolved
ModalFetchOk ==
    /\ showSearchModal /\ modalLoading
    /\ modalAssets' = dedupeBySymbol(sdkAssets)
    /\ modalLoading' = FALSE
    /\ UNCHANGED <<dashVars, showSearchModal, modalSearch, selectedType, sortBy, minPrice,
                   maxPrice, bulkMode, selectedAssets, passedTracked>>
    /\ UNCHANGED restVars
    /\ filterEffect

\* SearchModal's fetchAssets, assets.list() rejected: console.error, setLoading(false)
ModalFetchFail ==
    /\ showSearchModal /\ modalLoading
    /\ modalLoading' = FALSE
    /\ UNCHANGED <<dashVars, showSearchModal, modalAssets, filteredAssets, modalSearch,
                   selectedType, sortBy, minPrice, maxPrice, bulkMode, selectedAssets,
                   passedTracked>>
    /\ UNCHANGED restVars

SetModalSearch(t) ==
    /\ showSearchModal
    /\ modalSearch' = t
    /\ UNCHANGED <<modalAssets, selectedType, sortBy, minPrice, maxPrice>>
    /\ filterEffect
    /\ UNCHANGED <<dashVars, showSearchModal, modalLoading, bulkMode, selectedAssets,
                   passedTracked>>
    /\ UNCHANGED restVars

SetSelectedType(type) ==
    /\ showSearchModal
    /\ selectedType' = type
    /\ UNCHANGED <<modalAssets, modalSearch, sortBy, minPrice, maxPrice>>
    /\ filterEffect
    /\ UNCHANGED <<dashVars, showSearchModal, modalLoading, bulkMode, selectedAssets,
                   passedTracked>>
    /\ UNCHANGED restVars

SetSortBy(sort) ==
    /\ showSearchModal
    /\ sortBy' = sort
    /\ UNCHANGED <<modalAssets, modalSearch, selectedType, minPrice, maxPrice>>
    /\ filterEffect
    /\ UNCHANGED <<dashVars, showSearchModal, modalLoading, bulkMode, selectedAssets,
                   passedTracked>>
    /\ UNCHANGED restVars

SetMinPrice(p) ==
    /\ showSearchModal
    /\ minPrice' = p
    /\ UNCHANGED <<modalAssets, modalSearch, selectedType, sortBy, maxPrice>>
    /\ filterEffect
    /\ UNCHANGED <<dashVars, showSearchModal, modalLoading, bulkMode, selectedAssets,
                   passedTracked>>
    /\ UNCHANGED restVars

SetMaxPrice(p) ==
    /\ showSearchModal
    /\ maxPrice' = p
    /\ UNCHANGED <<modalAssets, modalSearch, selectedType, sortBy, minPrice>>
    /\ filterEffect
    /\ UNCHANGED <<dashVars, showSearchModal, modalLoading, bulkMode, selectedAssets,
                   passedTracked>>
    /\ UNCHANGED restVars

\* the bulk-mode button: setBulkMode(!bulkMode)
ToggleBulkMode ==
    /\ showSearchModal
    /\ bulkMode' = ~bulkMode
    /\ UNCHANGED <<dashVars, showSearchModal, modalAssets, modalLoading, filteredAssets,
                   modalSearch, selectedType, sortBy, minPrice, maxPrice, selectedAssets,
                   passedTracked>>
    /\ UNCHANGED restVars

\* the assets the modal renders with a click handler
displayedAssets ==
    {filteredAssets[i] : i \in 1..Len(filteredAssets)}
        \cup (IF modalSearch = <<>>
              THEN {popularAssets[i] : i \in 1..Len(popularAssets)}
              ELSE {})

\* SearchModal's handleTrackAsset in bulk mode: the symbol joins or leaves selectedAssets
ModalSelectAsset(asset) ==
    /\ showSearchModal /\ ~modalLoading
    /\ asset \in displayedAssets
    /\ ~arrayIncludes(trackedSymbolsProp, asset.symbol)
    /\ bulkMode
    /\ selectedAssets' = IF asset.symbol \in selectedAssets
                         THEN selectedAssets \ {asset.symbol}
                         ELSE selectedAssets \cup {asset.symbol}
    /\ UNCHANGED <<dashVars, showSearchModal, modalAssets, modalLoading, filteredAssets,
                   modalSearch, selectedType, sortBy, minPrice, maxPrice, bulkMode,
                   passedTracked>>
    /\ UNCHANGED restVars

\* SearchModal's handleTrackAsset otherwise: onTrackAsset(asset), the Dashboard's
\* handleTrackAsset up to its first await
ModalTrackAsset(c, asset) ==
    /\ showSearchModal /\ ~modalLoading
    /\ asset \in displayedAssets
    /\ ~arrayIncludes(trackedSymbolsProp, asset.symbol)
    /\ ~bulkMode
    /\ freeSlot(c)
    /\ passedTracked' = (passedTracked \/ isAssetTracked(asset.symbol))
    /\ IF ~isAuthenticated \/ user = NoUser \/ isAlreadyTracked(asset.symbol)
       THEN UNCHANGED calls
       ELSE calls' = startCall(c, [IdleCall EXCEPT !.op = "track", !.pc = "create",
                                                  !.sym = asset.symbol])
    /\ dashUnchangedButCalls
    /\ UNCHANGED <<showSearchModal, modalAssets, modalLoading, filteredAssets, modalSearch,
                   selectedType, sortBy, minPrice, maxPrice, bulkMode, selectedAssets>>
    /\ UNCHANGED restVars

toggleSelectAll ==
    /\ showSearchModal /\ bulkMode
    /\ selectedAssets' =
          IF Cardinality(selectedAssets) = Len(filteredAssets)
          THEN {}
          ELSE {filteredAssets[i].symbol : i \in 1..Len(filteredAssets)}
    /\ UNCHANGED <<dashVars, showSearchModal, modalAssets, modalLoading, filteredAssets,
                   modalSearch, selectedType, sortBy, minPrice, maxPrice, bulkMode,
                   passedTracked>>
    /\ UNCHANGED restVars

MaxTrackedAtOpen == 1

SearchStores ==
    {withIds(t) : t \in SeqsUpTo({[userId |-> "u1", assetSymbol |-> BTC, isTracked |-> TRUE]},
                                 MaxTrackedAtOpen)}

\* the Dashboard of a signed-in user after its mount fetches, the modal just opened
SearchInit ==
    /\ sdkAssets \in AssetLists
    /\ store \in SearchStores
    /\ nextId = Len(store) + 1
    /\ user = "u1"
    /\ isAuthenticated = TRUE
    /\ assets = fetchAssetsResult(sdkAssets)
    /\ userAssets = fetchUserAssetsResult(store, "u1")
    /\ trackedAssets = updateTrackedAssets(assets, userAssets)
    /\ dashSearch = <<>>
    /\ loading = FALSE
    /\ calls = [c \in CallIds |-> IdleCall]
    /\ driveTracked = getTrackedSymbols(userAssets)
    /\ createdIds = {}
    /\ sdkFailed = FALSE
    /\ bulkCalls = <<>>
    /\ CardUnmounted
    /\ showSearchModal = TRUE
    /\ modalAssets = <<>>
    /\ modalLoading = TRUE
    /\ filteredAssets = <<>>
    /\ modalSearch = <<>>
    /\ selectedType = "all"
    /\ sortBy = "popularity"
    /\ minPrice = <<>>
    /\ maxPrice = <<>>
    /\ bulkMode = FALSE
    /\ selectedAssets = {}
    /\ passedTracked = FALSE
    /\ RestIdle

\* the modal's handlers and the continuation of the handleTrackAsset call it starts,
\* with a backend that accepts the Dashboard's calls
SearchNext ==
    \/ OpenSearchModal
    \/ CloseSearchModal
    \/ ModalFetchOk
    \/ ModalFetchFail
    \/ \E t \in ModalTerms : SetModalSearch(t)
    \/ \E type \in ModalTypes : SetSelectedType(type)
    \/ \E sort \in SortOptions : SetSortBy(sort)
    \/ \E p \in PriceInputs : SetMinPrice(p)
    \/ \E p \in PriceInputs : SetMaxPrice(p)
    \/ ToggleBulkMode
    \/ \E a \in CallableAssets : ModalSelectAsset(a)
    \/ \E a \in CallableAssets : ModalTrackAsset(1, a)
    \/ toggleSelectAll
    \/ TrackCreateOk(1, DashCreates)
    \/ FetchUserAssetsOk(1)

SpecSearch == SearchInit /\ [][SearchNext]_vars

\* ------------------------------------------------------------------ Subscription page

PromoCodeText == <<"f", "a", "s", "b", "9", "9", "r", "f", "a", "9">>

\* what the promo input may hold when "Apply Code" is clicked
PromoInputs ==
    { PromoCodeText,
      <<"F", "A", "S", "B", "9", "9", "R", "F", "A", "9">>,
      <<"F", "a", "s", "B", "9", "9", "r", "f", "A", "9">>,
      <<" ", "f", "a", "s", "b", "9", "9", "r", "f", "a", "9">>,
      <<"f", "a", "s", "b", "9", "9", "r", "f", "a">> }

\* the comparison that distinguishes letter case
promoMatchesExact(code) == code = PromoCodeText

\* promoCode.toLowerCase() === 'fasb99rfa9'
promoMatches(code) == toLowerCase(code) = PromoCodeText

SubscriptionTemplates ==
    { [userId |-> "u1", plan |-> "free", status |-> "active", promoCode |-> <<>>],
      [userId |-> "u1", plan |-> "pro", status |-> "expired", promoCode |-> <<>>],
      [userId |-> "u2", plan |-> "pro", status |-> "active", promoCode |-> <<>>] }

MaxSubs == 2

subsWithIds(templates) ==
    [i \in 1..Len(templates) |->
        [_id |-> i, userId |-> templates[i].userId, plan |-> templates[i].plan,
         status |-> templates[i].status, promoCode |-> templates[i].promoCode]]

SubscriptionInits == {subsWithIds(t) : t \in SeqsUpTo(SubscriptionTemplates, MaxSubs)}

MaxPromoCalls == 2

\* list.find(sub => sub.userId === user?.userId) || null
findSubscription(list, uid) ==
    IF \E i \in 1..Len(list) : list[i].userId = uid
    THEN list[CHOOSE i \in 1..Len(list) :
                /\ list[i].userId = uid
                /\ \A j \in 1..(i - 1) : list[j].userId # uid]
    ELSE NoSub

\* the Dashboard is not mounted
DashboardUnmounted ==
    /\ sdkAssets = <<>>
    /\ store = <<>>
    /\ nextId = 1
    /\ assets = <<>>
    /\ userAssets = <<>>
    /\ trackedAssets = <<>>
    /\ dashSearch = <<>>
    /\ loading = TRUE
    /\ calls = [c \in CallIds |-> IdleCall]
    /\ driveTracked = <<>>
    /\ createdIds = {}
    /\ sdkFailed = FALSE
    /\ bulkCalls = <<>>
    /\ CardUnmounted

\* the page shows the promo input: signed in, not loading, "Enter Code" opened
promoInputShown == isAuthenticated /\ ~subLoading /\ showPromoInput

promoUnchangedDash ==
    UNCHANGED <<dashVars, modalVars, bulkVars, cardVars, refreshVars, serviceVars>>

\* the page after mount: the effect on [isAuthenticated] has started
\* fetchSubscription, or has set loading to false for a visitor
PromoInit ==
    /\ \E u \in {NoUser, "u1"} : user = u /\ isAuthenticated = (u # NoUser)
    /\ DashboardUnmounted
    /\ ModalClosed
    /\ subscriptions \in SubscriptionInits
    /\ nextSubId = Len(subscriptions) + 1
    /\ currentSubscription = NoSub
    /\ subLoading = isAuthenticated
    /\ promoCode = <<>>
    /\ showPromoInput = FALSE
    /\ promoCalls = <<>>
    /\ RefreshUnmounted
    /\ ServicesIdle

\* fetchSubscription of the mount, subscriptions.list() resolved
SubFetchOk ==
    /\ isAuthenticated /\ subLoading
    /\ currentSubscription' = findSubscription(subscriptions, user)
    /\ subLoading' = FALSE
    /\ UNCHANGED <<subscriptions, nextSubId, promoCode, showPromoInput, promoCalls>>
    /\ promoUnchangedDash

\* fetchSubscription of the mount, subscriptions.list() rejected
SubFetchFail ==
    /\ isAuthenticated /\ subLoading
    /\ subLoading' = FALSE
    /\ UNCHANGED <<subscriptions, nextSubId, currentSubscription, promoCode,
                   showPromoInput, promoCalls>>
    /\ promoUnchangedDash

\* "Enter Code": setShowPromoInput(!showPromoInput)
TogglePromoInput ==
    /\ isAuthenticated /\ ~subLoading
    /\ showPromoInput' = ~showPromoInput
    /\ UNCHANGED <<subscriptions, nextSubId, currentSubscription, subLoading, promoCode,
                   promoCalls>>
    /\ promoUnchangedDash

SetPromoCode(code) ==
    /\ promoInputShown
    /\ promoCode' = code
    /\ UNCHANGED <<subscriptions, nextSubId, currentSubscription, subLoading,
                   showPromoInput, promoCalls>>
    /\ promoUnchangedDash

\* handlePromoCode, the code does not match: toast.error
PromoInvalid ==
    /\ promoInputShown
    /\ Len(promoCalls) < MaxPromoCalls
    /\ ~promoMatches(promoCode)
    /\ promoCalls' = Append(promoCalls, [code |-> promoCode, cur |-> currentSubscription,
                                         pc |-> "invalid", writes |-> <<>>])
    /\ UNCHANGED <<subscriptions, nextSubId, currentSubscription, subLoading, promoCode,
                   showPromoInput>>
    /\ promoUnchangedDash

\* handlePromoCode, the code matches: subscriptions.update or subscriptions.create
\* is sent
PromoStart ==
    /\ promoInputShown
    /\ Len(promoCalls) < MaxPromoCalls
    /\ promoMatches(promoCode)
    /\ promoCalls' = Append(promoCalls,
          [code |-> promoCode, cur |-> currentSubscription, pc |-> "write",
           writes |-> <<[kind |-> IF currentSubscription # NoSub THEN "update" ELSE "create",
                         id |-> IF currentSubscription # NoSub
                                THEN currentSubscription._id ELSE 0,
                         userId |-> user, plan |-> "premium", status |-> "active",
                         promoCode |-> promoCode]>>])
    /\ UNCHANGED <<subscriptions, nextSubId, currentSubscription, subLoading, promoCode,
                   showPromoInput>>
    /\ promoUnchangedDash

\* the write resolved: the backend holds the subscription
PromoWriteOk(k) ==
    /\ promoCalls[k].pc = "write"
    /\ LET w == promoCalls[k].writes[1] IN
          IF w.kind = "update"
          THEN /\ subscriptions' =
                     [i \in 1..Len(subscriptions) |->
                         IF subscriptions[i]._id = w.id
                         THEN [_id |-> w.id, userId |-> w.userId, plan |-> w.plan,
                               status |-> w.status, promoCode |-> w.promoCode]
                         ELSE subscriptions[i]]
               /\ UNCHANGED nextSubId
          ELSE /\ subscriptions' =
                     Append(subscriptions,
                            [_id |-> nextSubId, userId |-> w.userId, plan |-> w.plan,
                             status |-> w.status, promoCode |-> w.promoCode])
               /\ nextSubId' = nextSubId + 1
    /\ promoCalls' = [promoCalls EXCEPT ![k].pc = "list"]
    /\ UNCHANGED <<currentSubscription, subLoading, promoCode, showPromoInput>>
    /\ promoUnchangedDash

\* the write rejected: the catch, toast.error
PromoWriteFail(k) ==
    /\ promoCalls[k].pc = "write"
    /\ promoCalls' = [promoCalls EXCEPT ![k].pc = "failed"]
    /\ UNCHANGED <<subscriptions, nextSubId, currentSubscription, subLoading, promoCode,
                   showPromoInput>>
    /\ promoUnchangedDash

\* fetchSubscription of the handler resolved; then setPromoCode(''),
\* setShowPromoInput(false), toast.success
PromoFetchOk(k) ==
    /\ promoCalls[k].pc = "list"
    /\ currentSubscription' = findSubscription(subscriptions, user)
    /\ subLoading' = FALSE
    /\ promoCode' = <<>>
    /\ showPromoInput' = FALSE
    /\ promoCalls' = [promoCalls EXCEPT ![k].pc = "done"]
    /\ UNCHANGED <<subscriptions, nextSubId>>
    /\ promoUnchangedDash

\* fetchSubscription of the handler rejected: caught inside it, the handler goes on
PromoFetchFail(k) ==
    /\ promoCalls[k].pc = "list"
    /\ subLoading' = FALSE
    /\ promoCode' = <<>>
    /\ showPromoInput' = FALSE
    /\ promoCalls' = [promoCalls EXCEPT ![k].pc = "done"]
    /\ UNCHANGED <<subscriptions, nextSubId, currentSubscription>>
    /\ promoUnchangedDash

PromoNext ==
    \/ SubFetchOk
    \/ SubFetchFail
    \/ TogglePromoInput
    \/ \E code \in PromoInputs : SetPromoCode(code)
    \/ PromoInvalid
    \/ PromoStart
    \/ \E k \in 1..Len(promoCalls) : PromoWriteOk(k)
    \/ \E k \in 1..Len(promoCalls) : PromoWriteFail(k)
    \/ \E k \in 1..Len(promoCalls) : PromoFetchOk(k)
    \/ \E k \in 1..Len(promoCalls) : PromoFetchFail(k)

SpecPromo == PromoInit /\ [][PromoNext]_vars

\* ------------------------------------------------------------------ useDataRefresh

\* Of an asset the hook's model keeps _id, sentimentScore (hundredths) and the two
\* timestamps; the other fields refreshData randomises (price, change, confidence,
\* volume) are written by the same update and not kept here.
refreshAsset(id, score) ==
    [_id |-> id, sentimentScore |-> score, lastAnalyzed |-> 0, updatedAt |-> 0]

\* what assets.list() holds when the hook mounts: scores inside and outside [-1, 1]
RefreshAssetLists ==
    {<<>>}
        \cup {<<refreshAsset("r1", s1)>> : s1 \in {-150, 95}}
        \cup {<<refreshAsset("r1", s1), refreshAsset("r2", s2)>> :
                 s1 \in {-150, 95}, s2 \in {-95, 150}}

\* (Math.random() - 0.5) * 0.3 is in [-0.15, 0.15): its two ends
SentimentVariations == {-15, 14}

MinutesOptions == {2, 5}

MaxRuns == 2
MaxTimers == 3
MaxTime == 1

Max(a, b) == IF a >= b THEN a ELSE b
Min(a, b) == IF a <= b THEN a ELSE b

\* the clamp without its upper bound
clampFromBelow(x) == Max(-100, x)

\* Math.max(-1, Math.min(1, x))
clampSentiment(x) == Max(-100, Min(100, x))

\* a timestamp read when the update is made
timestampAtUpdate(run, clock) == clock

\* lastAnalyzed and updatedAt of an update: the run's `timestamp`, read once
updateTimestamp(run, clock) == run.timestamp

\* a cleanup that leaves the timer running
keepInterval(ts, id) == ts

\* clearInterval(interval)
clearInterval(ts, id) == {t \in ts : t.id # id}

\* a catch that shows nothing
catchSilently(toasts) == toasts

\* the catch of refreshData: toast.error('Failed to refresh live data')
catchToast(toasts) == Append(toasts, "error")

\* the effect's cleanup, when the effect had set a timer: the timer it set is the
\* one with the latest id
effectCleanup(ts) ==
    IF autoRefresh /\ mounted THEN clearInterval(ts, nextTimerId - 1) ELSE ts

\* refreshData up to its first await: setIsRefreshing(true), the timestamp,
\* assets.list() sent
newRun(origin) ==
    [origin |-> origin, pc |-> "list", timestamp |-> now, list |-> <<>>,
     updates |-> <<>>, applied |-> 0, toasts |-> <<>>]

\* the update refreshData sends for the k-th asset of its list
updateFor(run, k, variation, clock) ==
    [id |-> run.list[k]._id,
     sentimentScore |-> clampSentiment(run.list[k].sentimentScore + variation),
     lastAnalyzed |-> updateTimestamp(run, clock),
     updatedAt |-> updateTimestamp(run, clock)]

\* assets.update(id, data) applied by the backend
applyUpdate(list, u) ==
    [i \in 1..Len(list) |->
        IF list[i]._id = u.id
        THEN [_id |-> u.id, sentimentScore |-> u.sentimentScore,
              lastAnalyzed |-> u.lastAnalyzed, updatedAt |-> u.updatedAt]
        ELSE list[i]]

\* manualRefresh after its await: toast.success, whatever the run did
afterRun(run, toasts) ==
    IF run.origin = "manual" THEN Append(toasts, "success") ELSE toasts

refreshFrame ==
    UNCHANGED <<store, nextId, user, isAuthenticated, assets, userAssets, trackedAssets,
                dashSearch, loading, calls, driveTracked, createdIds, sdkFailed,
                modalVars, bulkVars, cardVars, promoVars, serviceVars>>

\* the component has mounted: the effect has called refreshData and set its timer
RefreshInit ==
    /\ sdkAssets \in RefreshAssetLists
    /\ store = <<>>
    /\ nextId = 1
    /\ user = "u1"
    /\ isAuthenticated = TRUE
    /\ assets = <<>>
    /\ userAssets = <<>>
    /\ trackedAssets = <<>>
    /\ dashSearch = <<>>
    /\ loading = TRUE
    /\ calls = [c \in CallIds |-> IdleCall]
    /\ driveTracked = <<>>
    /\ createdIds = {}
    /\ sdkFailed = FALSE
    /\ bulkCalls = <<>>
    /\ CardUnmounted
    /\ ModalClosed
    /\ SubscriptionUnmounted
    /\ ServicesIdle
    /\ mounted = TRUE
    /\ autoRefresh = TRUE
    /\ refreshInterval = DefaultRefreshInterval
    /\ isRefreshing = TRUE
    /\ lastRefresh = 0
    /\ timers = {[id |-> 1, period |-> DefaultRefreshInterval]}
    /\ nextTimerId = 2
    /\ now = 0
    /\ runs = <<[origin |-> "effect", pc |-> "list", timestamp |-> 0, list |-> <<>>,
                 updates |-> <<>>, applied |-> 0, toasts |-> <<>>]>>
    /\ lastRefreshBy = 0

\* the effect on [refreshData, refreshInterval, autoRefresh] after a state change:
\* the cleanup of the previous run of the effect, then the effect with the new state
refreshEffect ==
    IF autoRefresh'
    THEN /\ Len(runs) < MaxRuns /\ nextTimerId <= MaxTimers
         /\ runs' = Append(runs, newRun("effect"))
         /\ isRefreshing' = TRUE
         /\ timers' = effectCleanup(timers)
                          \cup {[id |-> nextTimerId, period |-> refreshInterval']}
         /\ nextTimerId' = nextTimerId + 1
    ELSE /\ timers' = effectCleanup(timers)
         /\ UNCHANGED <<runs, isRefreshing, nextTimerId>>

\* toggleAutoRefresh: setAutoRefresh(prev => !prev), a toast, then the effect
ToggleAutoRefresh ==
    /\ mounted
    /\ autoRefresh' = ~autoRefresh
    /\ UNCHANGED <<sdkAssets, mounted, refreshInterval, lastRefresh, now, lastRefreshBy>>
    /\ refreshFrame
    /\ refreshEffect

\* setCustomInterval with the interval already set: a toast, no re-render
SetSameInterval(minutes) ==
    /\ mounted
    /\ minutes * 60 * 1000 = refreshInterval
    /\ UNCHANGED vars

\* setCustomInterval: setRefreshInterval(minutes * 60 * 1000), a toast, then the effect
SetCustomInterval(minutes) ==
    /\ mounted
    /\ minutes * 60 * 1000 # refreshInterval
    /\ refreshInterval' = minutes * 60 * 1000
    /\ UNCHANGED <<sdkAssets, mounted, autoRefresh, lastRefresh, now, lastRefreshBy>>
    /\ refreshFrame
    /\ refreshEffect

\* the component unmounts: the effect's cleanup
Unmount ==
    /\ mounted
    /\ mounted' = FALSE
    /\ timers' = effectCleanup(timers)
    /\ UNCHANGED <<sdkAssets, autoRefresh, refreshInterval, isRefreshing, lastRefresh,
                   nextTimerId, now, runs, lastRefreshBy>>
    /\ refreshFrame

\* a live timer fires: refreshData()
Tick(t) ==
    /\ t \in timers
    /\ Len(runs) < MaxRuns
    /\ runs' = Append(runs, newRun("timer"))
    /\ isRefreshing' = IF mounted THEN TRUE ELSE isRefreshing
    /\ UNCHANGED <<sdkAssets, mounted, autoRefresh, refreshInterval, lastRefresh, timers,
                   nextTimerId, now, lastRefreshBy>>
    /\ refreshFrame

\* the Dashboard's refresh button (disabled while isRefreshing): manualRefresh()
ManualRefresh ==
    /\ mounted /\ ~isRefreshing
    /\ Len(runs) < MaxRuns
    /\ runs' = Append(runs, newRun("manual"))
    /\ isRefreshing' = TRUE
    /\ UNCHANGED <<sdkAssets, mounted, autoRefresh, refreshInterval, lastRefresh, timers,
                   nextTimerId, now, lastRefreshBy>>
    /\ refreshFrame

\* the run ends without an error: setLastRefresh(new Date()), the finally
runCompletes(r, run) ==
    /\ runs' = [runs EXCEPT ![r] = [run EXCEPT !.pc = "done",
                                               !.toasts = afterRun(run, run.toasts)]]
    /\ lastRefresh' = IF mounted THEN now' ELSE lastRefresh
    /\ lastRefreshBy' = IF mounted THEN r ELSE lastRefreshBy
    /\ isRefreshing' = IF mounted THEN FALSE ELSE isRefreshing

\* the run goes on with the update of the next asset of its list
runSendsUpdate(r, run, variation) ==
    /\ runs' = [runs EXCEPT ![r] =
                   [run EXCEPT !.pc = "update",
                               !.updates = Append(run.updates,
                                   updateFor(run, Len(run.updates) + 1, variation, now'))]]
    /\ UNCHANGED <<lastRefresh, lastRefreshBy, isRefreshing>>

\* the run ends in its catch: the toast, the finally
runFails(r, run) ==
    /\ runs' = [runs EXCEPT ![r] =
                   [run EXCEPT !.pc = "failed",
                               !.toasts = afterRun(run, catchToast(run.toasts))]]
    /\ isRefreshing' = IF mounted THEN FALSE ELSE isRefreshing
    /\ UNCHANGED <<lastRefresh, lastRefreshBy>>

\* time passes while the SDK call is in flight
clockMoves(dt) == now' = now + dt /\ now + dt <= MaxTime

\* assets.list() of a run resolved
RunListOk(r, variation, dt) ==
    /\ runs[r].pc = "list"
    /\ clockMoves(dt)
    /\ LET run == [runs[r] EXCEPT !.list = sdkAssets] IN
          IF run.list = <<>>
          THEN runCompletes(r, run)
          ELSE runSendsUpdate(r, run, variation)
    /\ UNCHANGED <<sdkAssets, mounted, autoRefresh, refreshInterval, timers, nextTimerId>>
    /\ refreshFrame

\* assets.list() or assets.update() of a run rejected
RunCallFail(r, dt) ==
    /\ runs[r].pc \in {"list", "update"}
    /\ clockMoves(dt)
    /\ runFails(r, runs[r])
    /\ UNCHANGED <<sdkAssets, mounted, autoRefresh, refreshInterval, timers, nextTimerId>>
    /\ refreshFrame

\* assets.update() of a run resolved: the backend holds the update
RunUpdateOk(r, variation, dt) ==
    /\ runs[r].pc = "update"
    /\ clockMoves(dt)
    /\ sdkAssets' = applyUpdate(sdkAssets, runs[r].updates[Len(runs[r].updates)])
    /\ LET run == [runs[r] EXCEPT !.applied = runs[r].applied + 1] IN
          IF Len(run.updates) = Len(run.list)
          THEN runCompletes(r, run)
          ELSE runSendsUpdate(r, run, variation)
    /\ UNCHANGED <<mounted, autoRefresh, refreshInterval, timers, nextTimerId>>
    /\ refreshFrame

RefreshNext ==
    \/ ToggleAutoRefresh
    \/ \E minutes \in MinutesOptions : SetSameInterval(minutes)
    \/ \E minutes \in MinutesOptions : SetCustomInterval(minutes)
    \/ Unmount
    \/ \E t \in timers : Tick(t)
    \/ ManualRefresh
    \/ \E r \in 1..Len(runs), v \in SentimentVariations, dt \in {0, 1} : RunListOk(r, v, dt)
    \/ \E r \in 1..Len(runs), dt \in {0, 1} : RunCallFail(r, dt)
    \/ \E r \in 1..Len(runs), v \in SentimentVariations, dt \in {0, 1} : RunUpdateOk(r, v, dt)

SpecRefresh == RefreshInit /\ [][RefreshNext]_vars


\* ------------------------------------------------------------------ claims C1..C3

\* no two assets of the list have the same symbol after toUpperCase().trim()
noRepeatedSymbol(list) ==
    \A i, j \in 1..Len(list) :
        i # j => normalizedSymbol(list[i].symbol) # normalizedSymbol(list[j].symbol)

C2_AtMostOneRecordCreated ==
    sdkFailed \/ \A i, j \in 1..Len(store) :
        (/\ i # j
         /\ store[i]._id \in createdIds
         /\ store[j]._id \in createdIds
         /\ store[i].userId = store[j].userId)
        => uaSymbol(store[i]) # uaSymbol(store[j])

\* a handler call c that ran with no other call in flight returns from its awaited
\* fetchUserAssets() and shows its success toast, no SDK call having been rejected
completesAlone(c, op) ==
    /\ calls[c].op = op
    /\ calls[c].pc = "list"
    /\ calls[c].solo
    /\ calls'[c].pc = "idle"
    /\ ~sdkFailed'

symbolDisplayedIn(tracked, symbol) ==
    \E i \in 1..Len(tracked) :
        normalizedSymbol(tracked[i].symbol) = normalizedSymbol(symbol)

\* C3: when handleTrackAsset(S) completes successfully isAssetTracked(S) is true,
\* and when a handleUntrackAsset(S) completes successfully isAssetTracked(S) is
\* false and S is not in the tracked list, whatever the backend's userAssets hold.
C3_TrackUntrackToggles ==
    [][\A c \in CallIds :
          /\ completesAlone(c, "track") => isAssetTrackedIn(userAssets', calls[c].sym)
          /\ completesAlone(c, "untrack") =>
                /\ ~isAssetTrackedIn(userAssets', calls[c].sym)
                /\ ~symbolDisplayedIn(trackedAssets', calls[c].sym)]_vars

\* ---- SearchModal claims ----

listed(list) == {list[i] : i \in 1..Len(list)}

\* no filter of the step is looser after it than before it
filterTightened ==
    /\ showSearchModal /\ showSearchModal'
    /\ modalAssets' = modalAssets
    /\ userAssets' = userAssets
    /\ selectedType' = selectedType \/ selectedType = "all"
    /\ \/ minPrice' = minPrice
       \/ minPrice = <<>>
       \/ minPrice' # <<>> /\ parseFloat(minPrice') >= parseFloat(minPrice)
    /\ \/ maxPrice' = maxPrice
       \/ maxPrice = <<>>
       \/ maxPrice' # <<>> /\ parseFloat(maxPrice') <= parseFloat(maxPrice)
    /\ \/ modalSearch = <<>>
       \/ includes(toLowerCase(modalSearch'), toLowerCase(modalSearch))

\* filteredAssets holds fetched assets only, no symbol twice, and every one of them
\* passes the type, min price, max price and search-term filters that are set
filteredAssetsPassFilters ==
    /\ listed(filteredAssets) \subseteq listed(modalAssets)
    /\ \A i, j \in 1..Len(filteredAssets) :
          i # j => filteredAssets[i].symbol # filteredAssets[j].symbol
    /\ \A a \in listed(filteredAssets) :
          /\ selectedType # "all" => a.type = selectedType
          /\ minPrice # <<>> => a.currentPrice >= parseFloat(minPrice)
          /\ maxPrice # <<>> => a.currentPrice <= parseFloat(maxPrice)
          /\ modalSearch # <<>> =>
                \/ includes(toLowerCase(a.symbol), toLowerCase(modalSearch))
                \/ includes(toLowerCase(a.name), toLowerCase(modalSearch))

\* C5: the search filter narrows the list.  After filterAssets has run,
\* filteredAssets is a sub-collection of the fetched assets with no repeated
\* symbol, every listed asset satisfies all the active filters (type, min price,
\* max price, case-insensitive search term on symbol or name), and a step that
\* tightens a filter adds no asset to the list.
C5_FilterNarrows ==
    /\ [](showSearchModal => filteredAssetsPassFilters)
    /\ [][filterTightened => listed(filteredAssets') \subseteq listed(filteredAssets)]_vars

\* all four filters are set, and the list shown is a proper, non-empty part of the
\* fetched assets
C5_Witness ==
    /\ showSearchModal
    /\ selectedType = "crypto"
    /\ minPrice # <<>> /\ maxPrice # <<>> /\ modalSearch # <<>>
    /\ filteredAssets # <<>>
    /\ Len(filteredAssets) < Len(modalAssets)

\* C6: the SearchModal filters out the assets already tracked.  No asset the
\* Dashboard has as tracked (same symbol after upper-casing and trimming) is in
\* filteredAssets or in popularAssets, and none is passed to onTrackAsset.
C6_TrackedNeverOffered ==
    showSearchModal =>
        /\ \A a \in listed(filteredAssets) : ~isAssetTracked(a.symbol)
        /\ \A a \in listed(popularAssets) : ~isAssetTracked(a.symbol)
        /\ ~passedTracked

\* ---- Subscription claims ----

\* the two texts are the same when letter case is ignored
equalIgnoringCase(a, b) == toUpperCase(a) = toUpperCase(b)

\* C4: the promo code unlocks a plan.  A handlePromoCode call of a signed-in user
\* whose input is 'fasb99rfa9' in any letter case sends exactly one SDK write, an
\* update of currentSubscription when it is set and a create otherwise, with plan
\* 'premium' and status 'active'; a call with any other input sends no write and
\* leaves currentSubscription as it was.
C4_PromoUnlocksPlan ==
    /\ [](\A k \in 1..Len(promoCalls) :
            LET call == promoCalls[k] IN
            IF equalIgnoringCase(call.code, PromoCodeText)
            THEN /\ Len(call.writes) = 1
                 /\ call.writes[1].plan = "premium"
                 /\ call.writes[1].status = "active"
                 /\ IF call.cur # NoSub
                    THEN call.writes[1].kind = "update" /\ call.writes[1].id = call.cur._id
                    ELSE call.writes[1].kind = "create"
            ELSE call.writes = <<>> /\ call.pc = "invalid")
    /\ [][(/\ Len(promoCalls') = Len(promoCalls) + 1
           /\ ~equalIgnoringCase(promoCalls'[Len(promoCalls')].code, PromoCodeText))
          => currentSubscription' = currentSubscription]_vars

\* a call with the code in another letter case has updated the subscription the
\* page held, and a call with another text has been turned down
C4_Witness ==
    \E k, m \in 1..Len(promoCalls) :
        /\ promoCalls[k].code # PromoCodeText
        /\ promoCalls[k].pc = "done"
        /\ promoCalls[k].cur # NoSub
        /\ currentSubscription # NoSub
        /\ currentSubscription.plan = "premium"
        /\ promoCalls[m].pc = "invalid"

\* ---- useDataRefresh claims ----

\* C7: every asset written through assets.update by a refreshData run has its
\* sentimentScore within [-1, 1], whatever score the asset had before and whatever
\* random variation was drawn.
C7_SentimentWithinRange ==
    \A r \in 1..Len(runs) : \A k \in 1..Len(runs[r].updates) :
        /\ runs[r].updates[k].sentimentScore >= -100
        /\ runs[r].updates[k].sentimentScore <= 100

\* the backend holds an update of an asset whose score was above 1, and an update
\* of an asset whose score was below -1
C7_Witness ==
    /\ \E r \in 1..Len(runs) : \E k \in 1..runs[r].applied :
          runs[r].list[k].sentimentScore > 100 /\ runs[r].updates[k].sentimentScore = 100
    /\ \E r \in 1..Len(runs) : \E k \in 1..runs[r].applied :
          runs[r].list[k].sentimentScore < -100 /\ runs[r].updates[k].sentimentScore = -100

\* a run started by a timer joins the runs in this step
timerFires ==
    /\ Len(runs') = Len(runs) + 1
    /\ runs'[Len(runs')].origin = "timer"

\* C8: whatever toggleAutoRefresh, setRefreshInterval and unmount do, at most one
\* interval timer of the instance is live, a timer is live only while the
\* component is mounted and autoRefresh is true, its period is the current
\* refreshInterval, and no timer fires after the unmount.
C8_OneTimerWhileAutoRefresh ==
    /\ [](/\ Cardinality(timers) <= 1
          /\ \A t \in timers : mounted /\ autoRefresh /\ t.period = refreshInterval)
    /\ [][~mounted => ~timerFires]_vars

\* the effect has run again after a change of the interval: the timer it set is
\* the live one, with the new period
C8_Witness ==
    /\ \E t \in timers : t.id > 1 /\ t.period = 5 * 60 * 1000
    /\ \E r \in 1..Len(runs) : runs[r].origin = "effect" /\ r > 1

\* C9: a refreshData run without a failed SDK call sends exactly one assets.update
\* for every asset of the list it got, in the list's order and one after the other,
\* all with the same lastAnalyzed and updatedAt, and sets lastRefresh only after
\* its last update has completed.
C9_RunUpdatesEveryAssetOnce ==
    \A r \in 1..Len(runs) :
        LET run == runs[r] IN
        /\ run.pc = "done" =>
              /\ Len(run.updates) = Len(run.list)
              /\ run.applied = Len(run.list)
              /\ \A k \in 1..Len(run.list) : run.updates[k].id = run.list[k]._id
        /\ Len(run.updates) <= run.applied + 1
        /\ \A k \in 1..Len(run.updates) :
              /\ run.updates[k].lastAnalyzed = run.updates[1].lastAnalyzed
              /\ run.updates[k].updatedAt = run.updates[1].lastAnalyzed
        /\ lastRefreshBy = r => run.pc = "done"

\* a run has updated two assets while the clock moved, and has set lastRefresh
C9_Witness ==
    \E r \in 1..Len(runs) :
        /\ runs[r].pc = "done"
        /\ Len(runs[r].updates) = 2
        /\ lastRefreshBy = r
        /\ lastRefresh > runs[r].timestamp

\* the run r ends in its catch in this step
runFailsNow(r) == runs[r].pc # "failed" /\ runs'[r].pc = "failed"

\* C10: when assets.list or an assets.update of a refreshData run fails, the error
\* is caught (a manual refresh goes on past its await), the error toast is shown,
\* the run sends no further update, lastRefresh keeps its value, isRefreshing is
\* set back to false, and the updates the run has applied stay in the backend.
C10_FailureEndsRun ==
    /\ [](\A r \in 1..Len(runs) :
            runs[r].pc = "failed" =>
                /\ runs[r].toasts =
                      IF runs[r].origin = "manual" THEN <<"error", "success">>
                      ELSE <<"error">>
                /\ lastRefreshBy # r)
    /\ [][\A r \in 1..Len(runs) :
            /\ runFailsNow(r) =>
                  /\ lastRefresh' = lastRefresh
                  /\ mounted => isRefreshing' = FALSE
                  /\ sdkAssets' = sdkAssets
                  /\ runs'[r].updates = runs[r].updates
            /\ runs[r].pc = "failed" => runs'[r] = runs[r]]_vars

\* a run has failed at its second update: the first one is in the backend
C10_Witness ==
    \E r \in 1..Len(runs) :
        /\ runs[r].pc = "failed"
        /\ runs[r].applied = 1
        /\ Len(runs[r].updates) = 2
        /\ mounted /\ ~isRefreshing
        /\ \E i \in 1..Len(sdkAssets) :
              /\ sdkAssets[i]._id = runs[r].updates[1].id
              /\ sdkAssets[i].sentimentScore = runs[r].updates[1].sentimentScore

\* the runs that have started and not ended
runsInProgress == {r \in 1..Len(runs) : runs[r].pc \in {"list", "update"}}

\* C15: at most one refreshData run of the instance is in progress at any time;
\* no interval tick, no refresh started by the effect and no manual refresh starts
\* a run while an earlier run has not ended.
C15_AtMostOneRunInProgress == Cardinality(runsInProgress) <= 1

\* C16: while the component is mounted, isRefreshing is true at every moment at
\* which a refreshData run of the instance is in progress, and false at every
\* moment at which none is.
C16_IsRefreshingTracksRuns == mounted => (isRefreshing <=> runsInProgress # {})

\* C17: manualRefresh shows its success toast only when the run it awaited ended
\* without an SDK error; a failed run shows the error toast and no success toast.
C17_SuccessToastOnlyOnSuccess ==
    \A r \in 1..Len(runs) :
        /\ (\E i \in 1..Len(runs[r].toasts) : runs[r].toasts[i] = "success")
              => runs[r].pc = "done"
        /\ runs[r].pc = "failed" => runs[r].toasts = <<"error">>

\* ------------------------------------------------- googleDriveService
\* src/SentimentPulse/src/lib/googleDrive.ts

\* the value null
Null == [kind |-> "null"]

\* the object {}
EmptyObject == [f \in {} |-> f]

\* object.name || otherwise
fieldOr(object, name, otherwise) ==
    IF name \in DOMAIN object THEN object[name] ELSE otherwise

\* object.name = value
setField(object, name, value) ==
    [f \in DOMAIN object \cup {name} |-> IF f = name THEN value ELSE object[f]]

\* data.preferences || {}
NoPreferences == "{}"

\* data.subscription || null
NoSubscription == "null"

\* the record saveUserData stores
userDataOf(userId, data, clock) ==
    [userId |-> userId,
     trackedAssets |-> fieldOr(data, "trackedAssets", <<>>),
     preferences |-> fieldOr(data, "preferences", NoPreferences),
     subscription |-> fieldOr(data, "subscription", NoSubscription),
     alerts |-> fieldOr(data, "alerts", <<>>),
     timestamp |-> clock]

\* a saveUserData that leaves the backup as it was
backupSkipped(before, text) == before

\* localStorage.setItem(`${storageKey}_backup`, JSON.stringify(userData))
backupWritten(before, text) == text

\* localStorage.removeItem(`${storageKey}_backup`)
backupRemoved(storage, storageKey) ==
    [storage EXCEPT ![backupKey(storageKey)] = Absent]

\* saveUserData's two setItem calls
saveUserData(storage, userId, data, clock) ==
    LET storageKey == getStorageKey(userId)
        text == stringify(userDataOf(userId, data, clock))
    IN  [storage EXCEPT ![storageKey] = text,
                        ![backupKey(storageKey)] = backupWritten(@, text)]

\* saveUserData whose second setItem throws: the main key is written
saveCutShort(storage, userId, data, clock) ==
    [storage EXCEPT ![getStorageKey(userId)] = stringify(userDataOf(userId, data, clock))]

\* JSON.parse inside loadUserData's try: the catch returns null
parseOrNull(text) == IF parseable(text) THEN parse(text) ELSE Null

loadUserData(storage, userId) ==
    LET data == storage[getStorageKey(userId)]
        backupData == storage[backupKey(getStorageKey(userId))]
    IN  IF truthy(data) THEN parseOrNull(data)
        ELSE IF truthy(backupData) THEN parseOrNull(backupData)
        ELSE Null

\* await this.loadUserData(userId) || {}
loadedOrEmpty(storage, userId) ==
    IF loadUserData(storage, userId) = Null THEN EmptyObject
    ELSE loadUserData(storage, userId)

\* what the callers pass
TrackedInputs == {<<>>, <<"BTC">>, <<"BTC", "BTC">>}
PreferenceInputs == {"p1"}
SubscriptionInputs == {"pro"}
DataInputs ==
    {EmptyObject,
     [trackedAssets |-> <<"BTC">>],
     [preferences |-> "p1", subscription |-> "pro"]}
ImportInputs ==
    {stringify([trackedAssets |-> <<"BTC">>, preferences |-> "p1"]),
     stringify(EmptyObject), stringify(Null), CorruptText}

driveFrame == UNCHANGED <<dashVars, modalVars, bulkVars, cardVars, promoVars, forecastVars,
                          themeVars,
                          alertVars, apiVars,
                          mounted, autoRefresh, refreshInterval, isRefreshing, lastRefresh,
                          timers, nextTimerId, runs, lastRefreshBy>>

\* a call that writes both keys: the clock moves, the user's save is whole
driveSaves(userId, data, dt) ==
    /\ clockMoves(dt)
    /\ localStorage' = saveUserData(localStorage, userId, data, now')
    /\ setItemThrew' = setItemThrew \ {userId}
    /\ UNCHANGED loadResult
    /\ driveFrame

SaveUserData(userId, data, dt) == driveSaves(userId, data, dt)

\* [...new Set(trackedAssets)]
SyncTrackedAssets(userId, tracked, dt) ==
    driveSaves(userId,
               setField(loadedOrEmpty(localStorage, userId), "trackedAssets", unique(tracked)),
               dt)

SyncPreferences(userId, preferences, dt) ==
    driveSaves(userId,
               setField(loadedOrEmpty(localStorage, userId), "preferences", preferences),
               dt)

SyncSubscription(userId, subscription, dt) ==
    driveSaves(userId,
               setField(loadedOrEmpty(localStorage, userId), "subscription", subscription),
               dt)

\* JSON.parse(jsonData) throws, or saveUserData throws reading a field of null:
\* the catch rethrows and nothing is written
importThrows(jsonData) == ~parseable(jsonData) \/ parse(jsonData) = Null

ImportUserData(userId, jsonData, dt) ==
    IF importThrows(jsonData)
    THEN /\ clockMoves(0)
         /\ UNCHANGED driveVars
         /\ driveFrame
    ELSE driveSaves(userId, parse(jsonData), dt)

\* saveUserData whose second setItem throws (the quota is exceeded): the catch
\* rethrows with the main key written
SaveSetItemThrows(userId, data, dt) ==
    /\ clockMoves(dt)
    /\ localStorage' = saveCutShort(localStorage, userId, data, now')
    /\ setItemThrew' = setItemThrew \cup {userId}
    /\ UNCHANGED loadResult
    /\ driveFrame

ClearUserData(userId) ==
    /\ localStorage' = backupRemoved([localStorage EXCEPT ![getStorageKey(userId)] = Absent],
                                     getStorageKey(userId))
    /\ setItemThrew' = setItemThrew \ {userId}
    /\ UNCHANGED <<loadResult, now>>
    /\ driveFrame

LoadUserData(userId) ==
    /\ loadResult' = [userId |-> userId, value |-> loadUserData(localStorage, userId)]
    /\ UNCHANGED <<localStorage, setItemThrew, now>>
    /\ driveFrame

\* the service of a fresh browser profile, on a page that uses nothing else
DriveInit ==
    /\ user = "u1"
    /\ isAuthenticated = TRUE
    /\ DashboardUnmounted
    /\ ModalClosed
    /\ RestIdle

DriveNext ==
    \/ \E u \in DriveUsers, data \in DataInputs, dt \in 0..MaxTime : SaveUserData(u, data, dt)
    \/ \E u \in DriveUsers, t \in TrackedInputs, dt \in 0..MaxTime : SyncTrackedAssets(u, t, dt)
    \/ \E u \in DriveUsers, p \in PreferenceInputs, dt \in 0..MaxTime : SyncPreferences(u, p, dt)
    \/ \E u \in DriveUsers, sub \in SubscriptionInputs, dt \in 0..MaxTime :
           SyncSubscription(u, sub, dt)
    \/ \E u \in DriveUsers, text \in ImportInputs, dt \in 0..MaxTime :
           ImportUserData(u, text, dt)
    \/ \E u \in DriveUsers, data \in DataInputs, dt \in 0..MaxTime :
           SaveSetItemThrows(u, data, dt)
    \/ \E u \in DriveUsers : ClearUserData(u)

SpecDrive == DriveInit /\ [][DriveNext]_vars

\* what a key can hold when loadUserData is called: nothing, the empty string,
\* a text that does not parse, the text "null", or a stored record
StoredRecords ==
    {userDataOf("u1", data, 0) : data \in {EmptyObject, [trackedAssets |-> <<"BTC">>],
                                           [preferences |-> "p1", subscription |-> "pro"]}}
StorageItems ==
    {Absent, EmptyText, CorruptText, stringify(Null)} \cup {stringify(r) : r \in StoredRecords}

LoadInit ==
    /\ user = "u1"
    /\ isAuthenticated = TRUE
    /\ DashboardUnmounted
    /\ ModalClosed
    /\ SubscriptionUnmounted
    /\ RefreshUnmounted
    /\ ForecastIdle
    /\ ThemeIdle
    /\ AlertsIdle
    /\ ApiIdle
    /\ \E main \in StorageItems, backup \in StorageItems :
           localStorage = [EmptyStorage EXCEPT ![getStorageKey("u1")] = main,
                                               ![backupKey(getStorageKey("u1"))] = backup]
    /\ loadResult = NoResult
    /\ setItemThrew = {}

LoadNext == \E u \in DriveUsers : LoadUserData(u)

SpecLoad == LoadInit /\ [][LoadNext]_vars

\* the two keys of the user hold the same text, or neither holds any
keysAgree(userId) ==
    localStorage[getStorageKey(userId)] = localStorage[backupKey(getStorageKey(userId))]

\* C11: after any sequence of saveUserData, syncTrackedAssets, syncPreferences,
\* syncSubscription, importUserData and clearUserData calls for a user, each run to
\* completion, the main localStorage key and its '_backup' key are either both
\* absent or hold identical JSON. A save that a throwing setItem cut short has not
\* run to completion; the next call that completes restores the agreement.
C11_MainAndBackupAgree ==
    \A u \in DriveUsers : u \notin setItemThrew => keysAgree(u)

\* both keys of u1 hold the record of a sync that followed an import, and u2's
\* keys, cleared after a save, are absent
C11_Witness ==
    /\ setItemThrew = {}
    /\ truthy(localStorage[getStorageKey("u1")])
    /\ keysAgree("u1")
    /\ parse(localStorage[getStorageKey("u1")]).trackedAssets = <<"BTC">>
    /\ parse(localStorage[getStorageKey("u1")]).subscription = "pro"
    /\ parse(localStorage[getStorageKey("u1")]).timestamp = MaxTime
    /\ localStorage[getStorageKey("u2")] = Absent
    /\ localStorage[backupKey(getStorageKey("u2"))] = Absent

\* a key holds a record loadUserData could return
holdsRecord(item) == parseable(item) /\ parse(item) # Null

\* C12: loadUserData returns a stored record whenever at least one of the main key
\* and the backup key holds a parseable record for that user, and returns null only
\* when neither does; it never throws.
C12_LoadReturnsStoredRecord ==
    loadResult # NoResult =>
        LET main == localStorage[getStorageKey(loadResult.userId)]
            backup == localStorage[backupKey(getStorageKey(loadResult.userId))]
        IN  /\ (holdsRecord(main) \/ holdsRecord(backup)) =>
                   /\ loadResult.value # Null
                   /\ loadResult.value \in
                          {parse(item) : item \in {i \in {main, backup} : holdsRecord(i)}}
            /\ loadResult.value = Null => ~(holdsRecord(main) \/ holdsRecord(backup))

\* --------------------------------------------------- ForecastingEngine
\* src/unnamed/part_002
\* Scores are kept as integers in units of 1/ScoreUnit, weights and an asset's
\* sentimentScore and socialSentiment in hundredths, priceChange24h in percent.

\* one whole score: every quotient the engine forms of the inputs below is a
\* whole number of 1/1200
ScoreUnit == 1200

\* x hundredths, as a score
hundredths(x) == x * (ScoreUnit \div 100)

Abs(x) == IF x < 0 THEN -x ELSE x

\* Math.round(numerator / denominator): the nearest integer, a half going up
mathRound(numerator, denominator) == (2 * numerator + denominator) \div (2 * denominator)

\* the asset has the optional field
has(asset, name) == name \in DOMAIN asset

\* Math.max(-1, Math.min(1, score))
clampScore(score) == Max(-ScoreUnit, Min(ScoreUnit, score))

\* article.sentiment === 'positive' ? 0.3 : article.sentiment === 'negative' ? -0.3 : 0
sentimentValue(sentiment) ==
    IF sentiment = "positive" THEN hundredths(30)
    ELSE IF sentiment = "negative" THEN hundredths(-30)
    ELSE 0

RECURSIVE newsSum(_)
\* newsArticles.reduce((acc, article) => acc + sentimentValue, 0)
newsSum(articles) ==
    IF articles = <<>> THEN 0
    ELSE sentimentValue(Head(articles)) + newsSum(Tail(articles))

calculateSentimentImpact(asset) ==
    LET impact == hundredths(asset.sentimentScore)
    IN  IF has(asset, "newsArticles") /\ Len(asset.newsArticles) > 0
        THEN clampScore((impact + newsSum(asset.newsArticles) \div Len(asset.newsArticles))
                        \div 2)
        ELSE clampScore(impact)

\* the RSI term: oversold, overbought, or the neutral zone
rsiTerm(rsi) ==
    IF rsi < 30 THEN hundredths(50)
    ELSE IF rsi > 70 THEN hundredths(-50)
    ELSE hundredths(50 - rsi)

\* the moving average crossover term
smaTerm(currentPrice, sma20, sma50) ==
    IF currentPrice > sma20 /\ sma20 > sma50 THEN hundredths(40)
    ELSE IF currentPrice < sma20 /\ sma20 < sma50 THEN hundredths(-40)
    ELSE 0

calculateTechnicalScore(asset) ==
    IF ~has(asset, "technicalIndicators") THEN 0
    ELSE LET indicators == asset.technicalIndicators
             hasRsi == has(indicators, "rsi")
             hasMacd == has(indicators, "macd")
             hasSma == indicators.sma20 # 0 /\ indicators.sma50 # 0
             score == (IF hasRsi THEN rsiTerm(indicators.rsi) ELSE 0)
                      + (IF hasMacd
                         THEN (IF indicators.macd > 0 THEN hundredths(30) ELSE hundredths(-30))
                         ELSE 0)
                      + (IF hasSma
                         THEN smaTerm(asset.currentPrice, indicators.sma20, indicators.sma50)
                         ELSE 0)
             factors == (IF hasRsi THEN 1 ELSE 0) + (IF hasMacd THEN 1 ELSE 0)
                        + (IF hasSma THEN 1 ELSE 0)
         IN  IF factors > 0 THEN score \div factors ELSE 0

\* const volumeThreshold = 1000000
volumeThreshold == 1000000

\* a volume score that takes a missing volume24h for normal activity
volumeScoreOfNormal(asset) == hundredths(10)

calculateVolumeScore(asset) ==
    IF ~has(asset, "volume24h") \/ asset.volume24h = 0 THEN 0
    ELSE LET highVolume == asset.volume24h > volumeThreshold
         IN  IF highVolume /\ asset.priceChange24h > 2 THEN hundredths(40)
             ELSE IF highVolume /\ asset.priceChange24h < -2 THEN hundredths(-40)
             ELSE IF ~highVolume /\ Abs(asset.priceChange24h) > 5 THEN hundredths(-20)
             ELSE hundredths(10)

calculateSocialScore(asset) ==
    IF ~has(asset, "socialMetrics") THEN 0
    ELSE LET social == asset.socialMetrics
             totalMentions == social.twitterMentions + social.redditPosts
             score == (IF has(social, "socialSentiment")
                       THEN (hundredths(social.socialSentiment - 50) * 6) \div 10
                       ELSE 0)
                      + (IF totalMentions > 1000 THEN hundredths(20)
                         ELSE IF totalMentions > 100 THEN hundredths(10)
                         ELSE 0)
         IN  clampScore(score)

\* the four scores generateForecast computes
scoresOf(asset) ==
    [sentiment |-> calculateSentimentImpact(asset),
     technical |-> calculateTechnicalScore(asset),
     volume |-> calculateVolumeScore(asset),
     social |-> calculateSocialScore(asset)]

\* the weighted composite score, in units of 1/(100 * ScoreUnit)
compositeScore(scores, cfg) ==
    scores.sentiment * cfg.sentimentWeight + scores.technical * cfg.technicalWeight
    + scores.volume * cfg.volumeWeight + scores.social * cfg.socialWeight

\* 0.1 as a composite score
OneTenth == 10 * ScoreUnit

\* a direction that counts a composite of exactly 0.1 as bullish
directionInclusive(composite) ==
    IF composite >= OneTenth THEN "bullish"
    ELSE IF composite <= -OneTenth THEN "bearish"
    ELSE "neutral"

\* compositeScore > 0.1 ? 'bullish' : compositeScore < -0.1 ? 'bearish' : 'neutral'
directionOf(composite) ==
    IF composite > OneTenth THEN "bullish"
    ELSE IF composite < -OneTenth THEN "bearish"
    ELSE "neutral"

\* asset.type === 'crypto' ? 0.15 : 0.08, in hundredths
volatilityOf(asset) == IF asset.type = "crypto" THEN 15 ELSE 8

\* (Math.random() - 0.5) * 0.05, in thousandths
RandomFactors == {-25, 0, 24}

\* predictPrice, in units of 1/(10000 * ScoreUnit) of the price unit
predictPrice(asset, composite, randomFactor) ==
    asset.currentPrice
    * (10000 * ScoreUnit + composite * volatilityOf(asset) + randomFactor * 10 * ScoreUnit
       + asset.priceChange24h * 30 * ScoreUnit)

\* the scores that are not 0, in the order of Object.values(scores)
scoreValues(scores) ==
    SelectSeq(<<scores.sentiment, scores.technical, scores.volume, scores.social>>,
              LAMBDA x : x # 0)

RECURSIVE sumOf(_)
sumOf(values) == IF values = <<>> THEN 0 ELSE Head(values) + sumOf(Tail(values))

RECURSIVE deviationSum(_, _, _)
\* the sum of |score - avgScore|, times the number of scores
deviationSum(values, count, total) ==
    IF values = <<>> THEN 0
    ELSE Abs(count * Head(values) - total) + deviationSum(Tail(values), count, total)

\* calculateConfidence: the confidence as the fraction num / den, clamped to
\* [0.1, 0.95]
calculateConfidence(asset, scores) ==
    LET base == 50 + (IF has(asset, "technicalIndicators") THEN 15 ELSE 0)
                   + (IF has(asset, "socialMetrics") THEN 15 ELSE 0)
                   + (IF has(asset, "newsArticles") /\ Len(asset.newsArticles) > 0
                      THEN 10 ELSE 0)
                   + (IF has(asset, "volume24h") /\ asset.volume24h # 0 THEN 10 ELSE 0)
        values == scoreValues(scores)
        count == Len(values)
        den == IF count > 0 THEN 5 * ScoreUnit * count * count ELSE 5 * ScoreUnit
        num == IF count > 0
               THEN (base * den) \div 100
                    + ScoreUnit * count * count - deviationSum(values, count, sumOf(values))
               ELSE (base * den) \div 100
    IN  [num |-> Max(den \div 10, Min((95 * den) \div 100, num)), den |-> den]

assessRisk(asset, confidence) ==
    IF 10 * confidence.num > 8 * confidence.den /\ Abs(asset.priceChange24h) < 5 THEN "low"
    ELSE IF 10 * confidence.num > 6 * confidence.den /\ Abs(asset.priceChange24h) < 10
         THEN "medium"
    ELSE "high"

\* generateReasoning: which sentences the list holds
generateReasoning(asset, scores) ==
    LET rsi == IF has(asset, "technicalIndicators") /\ has(asset.technicalIndicators, "rsi")
               THEN asset.technicalIndicators.rsi ELSE 0
        reasoning ==
            (IF scores.sentiment > hundredths(30) THEN <<"positive sentiment">>
             ELSE IF scores.sentiment < hundredths(-30) THEN <<"negative sentiment">>
             ELSE <<>>)
            \o (IF rsi # 0 /\ rsi < 30 THEN <<"oversold">>
                ELSE IF rsi > 70 THEN <<"overbought">>
                ELSE <<>>)
            \o (IF has(asset, "volume24h") /\ asset.volume24h > volumeThreshold
                THEN <<"high volume">> ELSE <<>>)
            \o (IF Abs(asset.priceChange24h) > 5 THEN <<"momentum">> ELSE <<>>)
    IN  IF Len(reasoning) > 0 THEN reasoning ELSE <<"available data">>

generateForecast(asset, cfg, randomFactor) ==
    LET scores == scoresOf(asset)
        composite == compositeScore(scores, cfg)
        confidence == calculateConfidence(asset, scores)
    IN  [price |-> predictPrice(asset, composite, randomFactor),
         direction |-> directionOf(composite),
         confidence |-> mathRound(100 * confidence.num, confidence.den),
         timeframe |-> cfg.timeHorizon,
         factors |-> [sentiment |-> mathRound(100 * scores.sentiment, ScoreUnit),
                      technical |-> mathRound(100 * scores.technical, ScoreUnit),
                      volume |-> mathRound(100 * scores.volume, ScoreUnit),
                      social |-> mathRound(100 * scores.social, ScoreUnit)],
         riskLevel |-> assessRisk(asset, confidence),
         reasoning |-> generateReasoning(asset, scores)]

\* { ...this.config, ...newConfig }, field by field
spread(newConfig, name, current) ==
    IF name \in DOMAIN newConfig THEN newConfig[name] ELSE current

updateConfig(cfg, newConfig) ==
    [sentimentWeight |-> spread(newConfig, "sentimentWeight", cfg.sentimentWeight),
     technicalWeight |-> spread(newConfig, "technicalWeight", cfg.technicalWeight),
     volumeWeight |-> spread(newConfig, "volumeWeight", cfg.volumeWeight),
     socialWeight |-> spread(newConfig, "socialWeight", cfg.socialWeight),
     timeHorizon |-> spread(newConfig, "timeHorizon", cfg.timeHorizon)]

\* the assets generateForecast is called on: the required fields, and every
\* choice of the optional ones
SentimentScores == {-250, -10, 10, 29}
PriceChanges == {0, 6}
NewsOptions == {<<"negative", "neutral">>}
IndicatorOptions ==
    {[rsi |-> 20, macd |-> 1, sma20 |-> 20, sma50 |-> 10],
     [rsi |-> 80, macd |-> -1, sma20 |-> 0, sma50 |-> 0]}
VolumeOptions == {0, 2 * volumeThreshold}
SocialOptions == {[socialSentiment |-> 100, twitterMentions |-> 2000, redditPosts |-> 0]}

BareAssets ==
    {[symbol |-> "BTC", type |-> "crypto", currentPrice |-> 30, priceChange24h |-> change,
      sentimentScore |-> score] : change \in PriceChanges, score \in SentimentScores}

\* the assets, and the assets with the optional field set
withField(assetSet, name, options) ==
    assetSet \cup {asset @@ (name :> option) : asset \in assetSet, option \in options}

\* the assets every optional field is tried on
FullAssets == {asset \in BareAssets : asset.sentimentScore = 29}

ForecastAssets ==
    BareAssets
    \cup withField(withField(withField(withField(FullAssets, "newsArticles", NewsOptions),
                                       "technicalIndicators", IndicatorOptions),
                             "volume24h", VolumeOptions),
                   "socialMetrics", SocialOptions)

\* what updateConfig is called with
ConfigUpdates ==
    {[sentimentWeight |-> 100, technicalWeight |-> 0, volumeWeight |-> 0, socialWeight |-> 0],
     [timeHorizon |-> 30]}

forecastFrame == UNCHANGED <<pageVars, driveVars, themeVars, alertVars, apiVars>>

GenerateForecast(asset, randomFactor) ==
    /\ forecast' = generateForecast(asset, config, randomFactor)
    /\ forecastCall' = [asset |-> asset, config |-> config]
    /\ UNCHANGED config
    /\ forecastFrame

UpdateConfig(newConfig) ==
    /\ config' = updateConfig(config, newConfig)
    /\ UNCHANGED <<forecastCall, forecast>>
    /\ forecastFrame

\* export const forecastingEngine = new ForecastingEngine()
ForecastInit ==
    /\ user = "u1"
    /\ isAuthenticated = TRUE
    /\ DashboardUnmounted
    /\ ModalClosed
    /\ RestIdle

ForecastNext ==
    \/ \E asset \in ForecastAssets, randomFactor \in RandomFactors :
           GenerateForecast(asset, randomFactor)
    \/ \E newConfig \in ConfigUpdates : UpdateConfig(newConfig)

SpecForecast == ForecastInit /\ [][ForecastNext]_vars

\* generateForecast has returned a result
forecastReturned ==
    /\ forecast # NoForecast
    /\ forecast.direction \in {"bullish", "bearish", "neutral"}
    /\ forecast.riskLevel \in {"low", "medium", "high"}

\* the factors of the optional fields the asset lacks are reported as 0, and
\* reasoning is not empty
missingFieldsDefaulted ==
    LET asset == forecastCall.asset
    IN  /\ ~has(asset, "technicalIndicators") => forecast.factors.technical = 0
        /\ ~has(asset, "socialMetrics") => forecast.factors.social = 0
        /\ ~has(asset, "volume24h") => forecast.factors.volume = 0
        /\ Len(forecast.reasoning) > 0

\* C13 as stated: generateForecast never fails on an asset whose optional fields
\* (technicalIndicators, socialMetrics, newsArticles, volume24h) are missing: the
\* corresponding factors technical, social and volume are reported as 0, the
\* sentiment factor is the asset's sentimentScore clamped to [-1, 1], and
\* reasoning is a non-empty list.
C13_SentimentFactorIsClampedScore ==
    forecast # NoForecast =>
        /\ forecastReturned
        /\ missingFieldsDefaulted
        /\ ~has(forecastCall.asset, "newsArticles") =>
               forecast.factors.sentiment * ScoreUnit
                   = clampScore(hundredths(forecastCall.asset.sentimentScore))

\* C13, amended: generateForecast never fails on an asset whose optional fields
\* are missing: the factors technical, social and volume of the missing fields are
\* reported as 0, the sentiment factor is 100 times the asset's sentimentScore
\* clamped to [-1, 1], rounded to an integer (a percentage between -100 and 100),
\* and reasoning is a non-empty list.
C13_MissingFieldsDefaulted ==
    forecast # NoForecast =>
        /\ forecastReturned
        /\ missingFieldsDefaulted
        /\ ~has(forecastCall.asset, "newsArticles") =>
               forecast.factors.sentiment
                   = mathRound(100 * clampScore(hundredths(forecastCall.asset.sentimentScore)),
                               ScoreUnit)

\* a forecast of an asset with none of the optional fields and a sentimentScore
\* of -2.5: the sentiment factor is -100 and the other three are 0
C13_Witness ==
    /\ forecast # NoForecast
    /\ forecastCall.asset \in BareAssets
    /\ forecastCall.asset.sentimentScore = -250
    /\ forecast.factors = [sentiment |-> -100, technical |-> 0, volume |-> 0, social |-> 0]
    /\ forecast.reasoning = <<"negative sentiment">>

\* the composite score of the last call, from the asset and the weights the
\* engine held when it was called
compositeOfCall ==
    LET scores == scoresOf(forecastCall.asset)
        weights == forecastCall.config
    IN  scores.sentiment * weights.sentimentWeight + scores.technical * weights.technicalWeight
        + scores.volume * weights.volumeWeight + scores.social * weights.socialWeight

\* C14: generateForecast reports direction 'bullish' exactly when the weighted
\* composite score (weights 0.35/0.30/0.20/0.15 by default, or the weights last
\* set by updateConfig) is greater than 0.1, 'bearish' exactly when it is less than
\* -0.1, and 'neutral' otherwise.
C14_DirectionFollowsComposite ==
    forecast # NoForecast =>
        /\ forecast.direction = "bullish" <=> compositeOfCall > OneTenth
        /\ forecast.direction = "bearish" <=> compositeOfCall < -OneTenth
        /\ forecast.direction = "neutral" <=>
               (compositeOfCall >= -OneTenth /\ compositeOfCall <= OneTenth)

\* a forecast made with weights set by updateConfig whose composite score is
\* exactly 0.1: it is reported neutral
C14_Witness ==
    /\ forecast # NoForecast
    /\ forecastCall.config.sentimentWeight = 100
    /\ compositeOfCall = OneTenth
    /\ forecast.direction = "neutral"

\* ------------------------------------------------ pages of a visitor
\* src/src/pages/Settings.tsx: Dashboard and Settings call useDataRefresh() before
\* they look at isAuthenticated

\* a visitor has opened the Dashboard: the hook's effect has called refreshData
\* and set its timer, whatever isAuthenticated is
VisitorInit ==
    /\ sdkAssets \in RefreshAssetLists
    /\ store = <<>>
    /\ nextId = 1
    /\ user = NoUser
    /\ isAuthenticated = FALSE
    /\ assets = <<>>
    /\ userAssets = <<>>
    /\ trackedAssets = <<>>
    /\ dashSearch = <<>>
    /\ loading = TRUE
    /\ calls = [c \in CallIds |-> IdleCall]
    /\ driveTracked = <<>>
    /\ createdIds = {}
    /\ sdkFailed = FALSE
    /\ bulkCalls = <<>>
    /\ CardUnmounted
    /\ ModalClosed
    /\ SubscriptionUnmounted
    /\ ServicesIdle
    /\ mounted = TRUE
    /\ autoRefresh = TRUE
    /\ refreshInterval = DefaultRefreshInterval
    /\ isRefreshing = TRUE
    /\ lastRefresh = 0
    /\ timers = {[id |-> 1, period |-> DefaultRefreshInterval]}
    /\ nextTimerId = 2
    /\ now = 0
    /\ runs = <<newRun("effect")>>
    /\ lastRefreshBy = 0

VisitorNext ==
    \/ \E asset \in CallableAssets : TrackSignInRequired(1, asset)
    \/ ToggleAutoRefresh
    \/ \E minutes \in MinutesOptions : SetSameInterval(minutes)
    \/ \E minutes \in MinutesOptions : SetCustomInterval(minutes)
    \/ Unmount
    \/ \E t \in timers : Tick(t)
    \/ ManualRefresh
    \/ \E r \in 1..Len(runs), v \in SentimentVariations, dt \in {0, 1} : RunListOk(r, v, dt)
    \/ \E r \in 1..Len(runs), dt \in {0, 1} : RunCallFail(r, dt)
    \/ \E r \in 1..Len(runs), v \in SentimentVariations, dt \in {0, 1} : RunUpdateOk(r, v, dt)

SpecVisitor == VisitorInit /\ [][VisitorNext]_vars

\* the create, update and delete calls issued so far: by handleTrackAsset and
\* handleUntrackAsset, and the assets.update calls of the refreshData runs
writesIssued ==
    Cardinality(createdIds)
    + Cardinality({c \in CallIds : calls[c].pc \in {"create", "delete"}})
    + Cardinality({r \in 1..Len(runs) : runs[r].updates # <<>>})

\* C18: while isAuthenticated is false, the application issues no create, update
\* or delete call on any lumi.entities collection, for any sequence of page
\* mounts, timer ticks and user actions.
C18_NoWritesWhileSignedOut == ~isAuthenticated => writesIssued = 0

\* ------------------------------------------------------------ useTheme
\* src/src/context/AuthContext.tsx (useTheme), src/src/App.tsx (AppContent),
\* src/src/pages/Settings.tsx (Settings)

\* the text 'light' or 'dark' as localStorage holds it
themeText(theme) == [kind |-> "text", json |-> FALSE, empty |-> FALSE, theme |-> theme]

\* prefersDark ? 'dark' : 'light'
defaultTheme == IF prefersDark THEN "dark" ELSE "light"

\* what the effect of useTheme sets the instance's theme to on mount
mountedTheme ==
    IF truthy(localStorage[ThemeKey]) THEN localStorage[ThemeKey].theme ELSE defaultTheme

\* applyTheme: the class of the new theme is added and the other one removed
applyTheme(classes, newTheme) ==
    IF newTheme = "dark" THEN (classes \cup {"dark"}) \ {"light"}
    ELSE (classes \cup {"light"}) \ {"dark"}

\* AppContent's effect on [theme]: classList.remove('dark', 'light'), add(theme)
appEffect(classes, theme) == (classes \ {"dark", "light"}) \cup {theme}

themeFrame == UNCHANGED <<pageVars, loadResult, setItemThrew, forecastVars, alertVars,
                         apiVars>>

\* the application starts: AppContent renders with 'dark', the effect of its
\* useTheme and its own effect run, it renders again with the theme found
AppMount ==
    /\ ~appMounted
    /\ appMounted' = TRUE
    /\ appTheme' = mountedTheme
    /\ rootClasses' = appEffect(appEffect(applyTheme(rootClasses, mountedTheme), InitialTheme),
                                mountedTheme)
    /\ bodyClasses' = appEffect(appEffect(bodyClasses, InitialTheme), mountedTheme)
    /\ UNCHANGED <<prefersDark, settingsMounted, settingsTheme, localStorage>>
    /\ themeFrame

\* the tab is closed or reloaded: the document and the component state are gone
AppClose ==
    /\ appMounted
    /\ appMounted' = FALSE
    /\ appTheme' = InitialTheme
    /\ settingsMounted' = FALSE
    /\ settingsTheme' = InitialTheme
    /\ rootClasses' = {}
    /\ bodyClasses' = {}
    /\ UNCHANGED <<prefersDark, localStorage>>
    /\ themeFrame

\* the route /settings is opened: Settings' own useTheme instance mounts
SettingsMount ==
    /\ appMounted /\ ~settingsMounted
    /\ settingsMounted' = TRUE
    /\ settingsTheme' = mountedTheme
    /\ rootClasses' = applyTheme(rootClasses, mountedTheme)
    /\ UNCHANGED <<prefersDark, bodyClasses, appMounted, appTheme, localStorage>>
    /\ themeFrame

SettingsUnmount ==
    /\ settingsMounted
    /\ settingsMounted' = FALSE
    /\ settingsTheme' = InitialTheme
    /\ UNCHANGED <<prefersDark, rootClasses, bodyClasses, appMounted, appTheme, localStorage>>
    /\ themeFrame

\* toggleTheme of Settings' instance, from the switch the page shows to a signed-in
\* user: setTheme, applyTheme, setItem. The state of AppContent's instance is its
\* own and does not change, so AppContent's effect does not run
toggleTheme ==
    /\ settingsMounted /\ isAuthenticated
    /\ LET newTheme == IF settingsTheme = "dark" THEN "light" ELSE "dark"
       IN  /\ settingsTheme' = newTheme
           /\ rootClasses' = applyTheme(rootClasses, newTheme)
           /\ localStorage' = [localStorage EXCEPT ![ThemeKey] = themeText(newTheme)]
    /\ UNCHANGED <<prefersDark, bodyClasses, appMounted, appTheme, settingsMounted>>
    /\ themeFrame

\* the system's colour scheme changes; the hook does not listen to it
SystemPreferenceChanges ==
    /\ prefersDark' = ~prefersDark
    /\ UNCHANGED <<rootClasses, bodyClasses, appMounted, appTheme, settingsMounted,
                   settingsTheme, localStorage>>
    /\ themeFrame

\* the browser before the application is opened
ThemeInit ==
    /\ \E u \in {NoUser, "u1"} : user = u /\ isAuthenticated = (u # NoUser)
    /\ DashboardUnmounted
    /\ ModalClosed
    /\ SubscriptionUnmounted
    /\ RefreshUnmounted
    /\ ForecastIdle
    /\ AlertsIdle
    /\ ApiIdle
    /\ \E saved \in {Absent, themeText("light"), themeText("dark")} :
           localStorage = [EmptyStorage EXCEPT ![ThemeKey] = saved]
    /\ loadResult = NoResult
    /\ setItemThrew = {}
    /\ prefersDark \in BOOLEAN
    /\ rootClasses = {}
    /\ bodyClasses = {}
    /\ appMounted = FALSE
    /\ appTheme = InitialTheme
    /\ settingsMounted = FALSE
    /\ settingsTheme = InitialTheme

ThemeNext ==
    \/ AppMount
    \/ AppClose
    \/ SettingsMount
    \/ SettingsUnmount
    \/ toggleTheme
    \/ SystemPreferenceChanges
    \/ \E data \in DataInputs, dt \in 0..MaxTime : SaveUserData("u1", data, dt)
    \/ ClearUserData("u1")

SpecTheme == ThemeInit /\ [][ThemeNext]_vars

\* C19: after any sequence of toggleTheme calls made from any component, every
\* mounted useTheme instance (AppContent and Settings) reports the same theme, and
\* that theme equals both the value stored under 'sentimentpulse-theme' and the
\* single theme class present on the document root.
C19_ThemeInstancesAgree ==
    (appMounted /\ truthy(localStorage[ThemeKey])) =>
        /\ settingsMounted => settingsTheme = appTheme
        /\ localStorage[ThemeKey] = themeText(appTheme)
        /\ rootClasses = {appTheme}

\* ------------------------------------------------------------ useAlerts
\* src/unnamed/part_004
\* An asset's sentimentScore is kept in hundredths, so that sentimentScore * 100
\* is the number kept.

\* triggeredAt of an alert that has not been triggered
NotTriggered == -1

alert(id, userId, symbol, type, threshold, triggered) ==
    [_id |-> id, userId |-> userId, assetSymbol |-> symbol, type |-> type,
     threshold |-> threshold, currentValue |-> 0, triggered |-> triggered,
     triggeredAt |-> IF triggered THEN 0 ELSE NotTriggered]

\* the alerts the backend may hold when the hook mounts
AlertTemplates ==
    <<alert(1, "u1", "BTC", "price_up", 30, FALSE),
      alert(2, "u1", "BTC", "price_down", 30, FALSE),
      alert(3, "u1", "ETH", "sentiment_change", 50, FALSE),
      alert(4, "u1", "ETH", "volume_spike", 0, FALSE),
      alert(5, "u1", "BTC", "price_up", 30, TRUE),
      alert(6, "u2", "BTC", "price_up", 30, FALSE)>>

MaxAlerts == 3

\* the templates at the positions of the set, in order
RECURSIVE alertsAt(_, _)
alertsAt(positions, from) ==
    IF from > Len(AlertTemplates) THEN <<>>
    ELSE IF from \in positions THEN <<AlertTemplates[from]>> \o alertsAt(positions, from + 1)
    ELSE alertsAt(positions, from + 1)

AlertStores ==
    {alertsAt(positions, 1) :
        positions \in {q \in SUBSET (1..Len(AlertTemplates)) : Cardinality(q) <= MaxAlerts}}

\* the lists monitorAlerts is called with
MonitorAssetLists ==
    {<<>>,
     <<[symbol |-> "BTC", currentPrice |-> 20, sentimentScore |-> 0]>>,
     <<[symbol |-> "BTC", currentPrice |-> 40, sentimentScore |-> 0],
       [symbol |-> "ETH", currentPrice |-> 5, sentimentScore |-> -50]>>,
     <<[symbol |-> "ETH", currentPrice |-> 5, sentimentScore |-> 20, volume24h |-> 100],
       [symbol |-> "BTC", currentPrice |-> 30, sentimentScore |-> 0]>>}

MaxMonitorCalls == 2

\* list.filter(alert => alert.userId === user.userId)
userAlertsOf(list, userId) == SelectSeq(list, LAMBDA a : a.userId = userId)

\* alerts.filter(alert => !alert.triggered)
activeAlertsOf(list) == SelectSeq(list, LAMBDA a : ~a.triggered)

\* assets.find(a => a.symbol === alert.assetSymbol) finds an asset
hasAssetOf(assetList, symbol) == \E i \in 1..Len(assetList) : assetList[i].symbol = symbol

\* assets.find(a => a.symbol === alert.assetSymbol), when it finds one
findAssetOf(assetList, symbol) ==
    assetList[CHOOSE i \in 1..Len(assetList) :
                 /\ assetList[i].symbol = symbol
                 /\ \A j \in 1..(i - 1) : assetList[j].symbol # symbol]

\* currentValue of the switch on alert.type
currentValueOf(type, asset) ==
    CASE type = "price_up" -> asset.currentPrice
      [] type = "price_down" -> asset.currentPrice
      [] type = "sentiment_change" -> asset.sentimentScore
      [] type = "volume_spike" -> IF "volume24h" \in DOMAIN asset THEN asset.volume24h ELSE 0

\* a switch whose price_up case needs the price to exceed the threshold
shouldTriggerAbove(type, threshold, currentValue) ==
    CASE type = "price_up" -> currentValue > threshold
      [] type = "price_down" -> currentValue <= threshold
      [] type = "sentiment_change" -> Abs(currentValue) >= threshold
      [] type = "volume_spike" -> currentValue >= threshold

\* shouldTrigger of the switch on alert.type
shouldTrigger(type, threshold, currentValue) ==
    CASE type = "price_up" -> currentValue >= threshold
      [] type = "price_down" -> currentValue <= threshold
      [] type = "sentiment_change" -> Abs(currentValue) >= threshold
      [] type = "volume_spike" -> currentValue >= threshold

\* the updates monitorAlerts passes to updateAlert for the alert
updatesFor(a, asset, clock) ==
    LET currentValue == currentValueOf(a.type, asset)
    IN  IF shouldTrigger(a.type, a.threshold, currentValue)
        THEN [id |-> a._id, triggered |-> TRUE, currentValue |-> currentValue,
              triggeredAt |-> clock]
        ELSE [id |-> a._id, currentValue |-> currentValue]

\* the update sets triggered
triggers(update) == "triggered" \in DOMAIN update

\* lumi.entities.alerts.update(alertId, updates) applied by the backend
applyAlertUpdate(list, update) ==
    [i \in 1..Len(list) |->
        IF list[i]._id = update.id
        THEN [list[i] EXCEPT !.currentValue = update.currentValue,
                             !.triggered = IF triggers(update) THEN TRUE ELSE @,
                             !.triggeredAt = IF triggers(update) THEN update.triggeredAt ELSE @]
        ELSE list[i]]

RECURSIVE nextWithAsset(_, _, _)
\* the for loop's continue: the next active alert from position k on whose asset
\* is in the list, or the position after the last
nextWithAsset(active, assetList, k) ==
    IF k > Len(active) THEN k
    ELSE IF hasAssetOf(assetList, active[k].assetSymbol) THEN k
    ELSE nextWithAsset(active, assetList, k + 1)

\* the loop from position k up to its next await: the updateAlert call of the
\* next alert whose asset is found, or the end of the loop
loopFrom(call, k) ==
    LET next == nextWithAsset(call.active, call.assets, k)
    IN  IF next > Len(call.active)
        THEN [call EXCEPT !.pc = "done", !.k = next]
        ELSE [call EXCEPT !.pc = "update", !.k = next,
                          !.issued = Append(@, updatesFor(call.active[next],
                                                findAssetOf(call.assets,
                                                            call.active[next].assetSymbol),
                                                now))]

alertsFrame == UNCHANGED <<pageVars, driveVars, forecastVars, themeVars, apiVars>>

\* monitorAlerts(assets) up to its first await, or to its return
MonitorStart(assetList) ==
    /\ Len(monitorCalls) < MaxMonitorCalls
    /\ LET call == [assets |-> assetList, alerts |-> alerts, active |-> activeAlertsOf(alerts),
                    k |-> 1, pc |-> "done", issued |-> <<>>]
       IN  monitorCalls' = Append(monitorCalls,
                                  IF Len(alerts) = 0 THEN call ELSE loopFrom(call, 1))
    /\ UNCHANGED <<alertStore, alerts, notifications>>
    /\ alertsFrame

\* updateAlert has returned: the notification of a triggered alert, then the loop
\* goes on
afterUpdateAlert(c) ==
    LET call == monitorCalls[c]
        update == call.issued[Len(call.issued)]
    IN  /\ notifications' = IF triggers(update) THEN Append(notifications, update.id)
                            ELSE notifications
        /\ monitorCalls' = [monitorCalls EXCEPT ![c] = loopFrom(call, call.k + 1)]

\* alerts.update resolved: updateAlert goes on to fetchAlerts
MonitorUpdateOk(c) ==
    /\ monitorCalls[c].pc = "update"
    /\ alertStore' = applyAlertUpdate(alertStore,
                                      monitorCalls[c].issued[Len(monitorCalls[c].issued)])
    /\ monitorCalls' = [monitorCalls EXCEPT ![c].pc = "fetch"]
    /\ UNCHANGED <<alerts, notifications>>
    /\ alertsFrame

\* alerts.update rejected: updateAlert's catch, toast.error
MonitorUpdateFail(c) ==
    /\ monitorCalls[c].pc = "update"
    /\ afterUpdateAlert(c)
    /\ UNCHANGED <<alertStore, alerts>>
    /\ alertsFrame

\* fetchAlerts inside updateAlert: alerts.list() resolved, setAlerts
MonitorFetchOk(c) ==
    /\ monitorCalls[c].pc = "fetch"
    /\ alerts' = userAlertsOf(alertStore, user)
    /\ afterUpdateAlert(c)
    /\ UNCHANGED alertStore
    /\ alertsFrame

\* fetchAlerts inside updateAlert: alerts.list() rejected, console.error
MonitorFetchFail(c) ==
    /\ monitorCalls[c].pc = "fetch"
    /\ afterUpdateAlert(c)
    /\ UNCHANGED <<alertStore, alerts>>
    /\ alertsFrame

\* the hook has mounted for a signed-in user and its fetchAlerts has set alerts
AlertsInit ==
    /\ user = "u1"
    /\ isAuthenticated = TRUE
    /\ DashboardUnmounted
    /\ ModalClosed
    /\ SubscriptionUnmounted
    /\ RefreshUnmounted
    /\ DriveIdle
    /\ ForecastIdle
    /\ ThemeIdle
    /\ ApiIdle
    /\ alertStore \in AlertStores
    /\ alerts = userAlertsOf(alertStore, "u1")
    /\ monitorCalls = <<>>
    /\ notifications = <<>>

AlertsNext ==
    \/ \E assetList \in MonitorAssetLists : MonitorStart(assetList)
    \/ \E c \in 1..Len(monitorCalls) : MonitorUpdateOk(c)
    \/ \E c \in 1..Len(monitorCalls) : MonitorUpdateFail(c)
    \/ \E c \in 1..Len(monitorCalls) : MonitorFetchOk(c)
    \/ \E c \in 1..Len(monitorCalls) : MonitorFetchFail(c)

SpecAlerts == AlertsInit /\ [][AlertsNext]_vars

\* the condition of the alert's type holds for the asset
conditionHolds(a, asset) ==
    \/ a.type = "price_up" /\ asset.currentPrice >= a.threshold
    \/ a.type = "price_down" /\ asset.currentPrice <= a.threshold
    \/ a.type = "sentiment_change" /\ Abs(asset.sentimentScore) >= a.threshold
    \/ a.type = "volume_spike"
       /\ (IF "volume24h" \in DOMAIN asset THEN asset.volume24h ELSE 0) >= a.threshold

\* the update of the call for the alert is the one the alert's condition asks for:
\* triggered with triggeredAt and currentValue, or currentValue alone
updateAsConditionAsks(a, asset, update) ==
    IF conditionHolds(a, asset)
    THEN /\ DOMAIN update = {"id", "triggered", "currentValue", "triggeredAt"}
         /\ update.triggered
         /\ update.currentValue = currentValueOf(a.type, asset)
    ELSE /\ DOMAIN update = {"id", "currentValue"}
         /\ update.currentValue = currentValueOf(a.type, asset)

\* C20: monitorAlerts sets an untriggered alert to triggered (with triggeredAt and
\* currentValue) exactly when its asset is in the supplied list and the condition
\* of its type holds (price_up: currentPrice >= threshold; price_down: currentPrice
\* <= threshold; sentiment_change: |sentimentScore*100| >= threshold; volume_spike:
\* (volume24h or 0) >= threshold), otherwise it only updates currentValue; it never
\* issues an update for an alert that is already triggered or whose asset is
\* absent. The alerts are those of the hook's state when monitorAlerts is called.
C20_MonitorFollowsConditions ==
    \A c \in 1..Len(monitorCalls) :
        LET call == monitorCalls[c]
            updatesOf(a) == {n \in 1..Len(call.issued) : call.issued[n].id = a._id}
        IN  /\ \A n \in 1..Len(call.issued) :
                   \E i \in 1..Len(call.alerts) : call.alerts[i]._id = call.issued[n].id
            /\ \A i \in 1..Len(call.alerts) :
                   LET a == call.alerts[i]
                   IN  IF a.triggered \/ ~hasAssetOf(call.assets, a.assetSymbol)
                       THEN updatesOf(a) = {}
                       ELSE /\ Cardinality(updatesOf(a)) <= 1
                            /\ call.pc = "done" => Cardinality(updatesOf(a)) = 1
                            /\ \A n \in updatesOf(a) :
                                   updateAsConditionAsks(
                                       a, findAssetOf(call.assets, a.assetSymbol),
                                       call.issued[n])

\* a call has ended that triggered one alert at the boundary of its condition,
\* updated the currentValue of another, and passed over a triggered one
C20_Witness ==
    \E c \in 1..Len(monitorCalls) :
        LET call == monitorCalls[c]
        IN  /\ call.pc = "done"
            /\ Len(call.alerts) = MaxAlerts
            /\ \E i \in 1..Len(call.alerts) : call.alerts[i].triggered
            /\ Len(call.issued) = 2
            /\ triggers(call.issued[1])
            /\ call.issued[1].currentValue = 30
            /\ ~triggers(call.issued[2])

\* the updates with triggered: true that the calls have passed to updateAlert for
\* the alert, as pairs of call and position
triggeringUpdatesOf(id) ==
    {<<c, n>> \in (1..Len(monitorCalls)) \X (1..MaxAlerts) :
        /\ n <= Len(monitorCalls[c].issued)
        /\ monitorCalls[c].issued[n].id = id
        /\ triggers(monitorCalls[c].issued[n])}

\* the notifications shown for the alert
notificationsOf(id) == {n \in 1..Len(notifications) : notifications[n] = id}

\* C21: each alert is triggered at most once: over all monitorAlerts calls, in any
\* order or interleaving, at most one update with triggered: true is issued and at
\* most one notification is shown for an alert id, and monitorAlerts never sets a
\* triggered alert back to untriggered.
C21_TriggeredAtMostOnce ==
    /\ \A id \in 1..Len(AlertTemplates) :
           /\ Cardinality(triggeringUpdatesOf(id)) <= 1
           /\ Cardinality(notificationsOf(id)) <= 1
    /\ \A c \in 1..Len(monitorCalls) : \A n \in 1..Len(monitorCalls[c].issued) :
           triggers(monitorCalls[c].issued[n]) => monitorCalls[c].issued[n].triggered
    /\ \A i \in 1..Len(alertStore) :
           AlertTemplates[alertStore[i]._id].triggered => alertStore[i].triggered

\* ------------------------------------------------ Dashboard: handleTrackMultipleAssets

MaxBulkCalls == 2

\* the tracked records of the signed-in user the backend may hold when the modal opens
BulkStores ==
    {withIds(t) : t \in SeqsUpTo({[userId |-> "u1", assetSymbol |-> BTC, isTracked |-> TRUE],
                                  [userId |-> "u1", assetSymbol |-> btc, isTracked |-> TRUE]},
                                 MaxTrackedAtOpen)}

\* the symbols as the records hold them, neither upper-cased nor trimmed
existingRawSymbolsOf(uas) == {uas[i].assetSymbol : i \in 1..Len(uas)}

\* new Set(userAssets.map(ua => ua.assetSymbol.toUpperCase().trim()))
existingSymbolsOf(uas) == {trim(toUpperCase(uas[i].assetSymbol)) : i \in 1..Len(uas)}

NoCount == -1

\* a handleTrackMultipleAssets call that has not reached an await
NewBulkCall(assetsToTrack) ==
    [input |-> assetsToTrack, local |-> userAssets,
     existingSymbols |-> existingSymbolsOf(userAssets), k |-> 1, pc |-> "done",
     addedCount |-> 0, issued |-> <<>>, toast |-> "none", reported |-> NoCount]

RECURSIVE nextUntracked(_, _, _)
\* the for loop's continue: the next asset from position k on whose normalized symbol
\* is not in existingSymbols, or the position after the last
nextUntracked(assetsToTrack, existingSymbols, k) ==
    IF k > Len(assetsToTrack) THEN k
    ELSE IF trim(toUpperCase(assetsToTrack[k].symbol)) \in existingSymbols
         THEN nextUntracked(assetsToTrack, existingSymbols, k + 1)
         ELSE k

\* the loop from position k up to its next await: the userAssets.create of the next
\* asset that is not skipped, or the fetchUserAssets after the loop
bulkLoopFrom(call, k) ==
    LET next == nextUntracked(call.input, call.existingSymbols, k)
    IN  IF next > Len(call.input)
        THEN [call EXCEPT !.pc = "list", !.k = next]
        ELSE [call EXCEPT !.pc = "create", !.k = next,
                          !.issued = Append(@, trim(toUpperCase(call.input[next].symbol)))]

\* the toast after fetchUserAssets: the count when assets were added
bulkToast(call) ==
    IF call.addedCount > 0
    THEN [call EXCEPT !.pc = "done", !.toast = "success", !.reported = call.addedCount]
    ELSE [call EXCEPT !.pc = "done", !.toast = "info"]

\* handleTrackMultipleAssets(assetsToTrack) up to its first await, or to its return
trackMultipleStart(assetsToTrack) ==
    IF ~isAuthenticated \/ user = NoUser
    THEN [NewBulkCall(assetsToTrack) EXCEPT !.toast = "signIn"]
    ELSE bulkLoopFrom(NewBulkCall(assetsToTrack), 1)

\* SearchModal's handleBulkTrack: the selected ones of filteredAssets go to
\* onTrackMultipleAssets, the selection and the bulk mode are reset
handleBulkTrack ==
    /\ showSearchModal /\ bulkMode
    /\ selectedAssets # {}
    /\ Len(bulkCalls) < MaxBulkCalls
    /\ LET assetsToTrack == SelectSeq(filteredAssets,
                                      LAMBDA asset : asset.symbol \in selectedAssets)
       IN  bulkCalls' = Append(bulkCalls, trackMultipleStart(assetsToTrack))
    /\ selectedAssets' = {}
    /\ bulkMode' = FALSE
    /\ UNCHANGED <<dashVars, showSearchModal, modalAssets, modalLoading, filteredAssets,
                   modalSearch, selectedType, sortBy, minPrice, maxPrice, passedTracked>>
    /\ UNCHANGED <<cardVars, promoVars, refreshVars, serviceVars>>

\* userAssets.create resolved: the backend holds the new record, the loop goes on
BulkCreateOk(c) ==
    /\ bulkCalls[c].pc = "create"
    /\ LET call == bulkCalls[c]
           symbol == call.issued[Len(call.issued)]
       IN  /\ store' = Append(store, [_id |-> nextId, userId |-> user,
                                      assetSymbol |-> symbol, isTracked |-> TRUE])
           /\ bulkCalls' =
                 [bulkCalls EXCEPT ![c] =
                     bulkLoopFrom([call EXCEPT !.existingSymbols = @ \cup {symbol},
                                               !.addedCount = @ + 1],
                                  call.k + 1)]
    /\ nextId' = nextId + 1
    /\ UNCHANGED <<sdkAssets, user, isAuthenticated, assets, userAssets, trackedAssets,
                   dashSearch, loading, calls, driveTracked, createdIds, sdkFailed,
                   modalVars>>
    /\ UNCHANGED <<cardVars, promoVars, refreshVars, serviceVars>>

\* userAssets.create rejected: the handler's catch, toast.error
BulkCreateFail(c) ==
    /\ bulkCalls[c].pc = "create"
    /\ bulkCalls' = [bulkCalls EXCEPT ![c].pc = "done", ![c].toast = "error"]
    /\ sdkFailed' = TRUE
    /\ UNCHANGED <<sdkAssets, store, nextId, user, isAuthenticated, assets, userAssets,
                   trackedAssets, dashSearch, loading, calls, driveTracked, createdIds,
                   modalVars>>
    /\ UNCHANGED <<cardVars, promoVars, refreshVars, serviceVars>>

\* setShowSearchModal(false): the modal unmounts, its state is gone
modalUnmounts ==
    /\ showSearchModal' = FALSE
    /\ modalAssets' = <<>>
    /\ modalLoading' = TRUE
    /\ filteredAssets' = <<>>
    /\ modalSearch' = <<>>
    /\ selectedType' = "all"
    /\ sortBy' = "popularity"
    /\ minPrice' = <<>>
    /\ maxPrice' = <<>>
    /\ bulkMode' = FALSE
    /\ selectedAssets' = {}
    /\ UNCHANGED passedTracked

\* fetchUserAssets after the loop, userAssets.list() resolved: setUserAssets, the
\* effect's updateTrackedAssets, syncTrackedAssets; then the toast and
\* setShowSearchModal(false)
BulkFetchOk(c) ==
    /\ bulkCalls[c].pc = "list"
    /\ userAssets' = fetchUserAssetsResult(store, user)
    /\ trackedAssets' = updateTrackedAssets(assets, userAssets')
    /\ driveTracked' = getTrackedSymbols(userAssets')
    /\ bulkCalls' = [bulkCalls EXCEPT ![c] = bulkToast(bulkCalls[c])]
    /\ modalUnmounts
    /\ UNCHANGED <<sdkAssets, store, nextId, user, isAuthenticated, assets, dashSearch,
                   loading, calls, createdIds, sdkFailed>>
    /\ UNCHANGED <<cardVars, promoVars, refreshVars, serviceVars>>

\* fetchUserAssets after the loop, userAssets.list() rejected: caught inside
\* fetchUserAssets, so the handler goes on to its toast and setShowSearchModal(false)
BulkFetchFail(c) ==
    /\ bulkCalls[c].pc = "list"
    /\ bulkCalls' = [bulkCalls EXCEPT ![c] = bulkToast(bulkCalls[c])]
    /\ sdkFailed' = TRUE
    /\ modalUnmounts
    /\ UNCHANGED <<sdkAssets, store, nextId, user, isAuthenticated, assets, userAssets,
                   trackedAssets, dashSearch, loading, calls, driveTracked, createdIds>>
    /\ UNCHANGED <<cardVars, promoVars, refreshVars, serviceVars>>

\* the Dashboard after its mount fetches, of a visitor or of a signed-in user, the
\* modal just opened
BulkInit ==
    /\ sdkAssets \in AssetLists
    /\ \E u \in {NoUser, "u1"} :
          /\ user = u
          /\ isAuthenticated = (u # NoUser)
          /\ store \in (IF u = NoUser THEN {<<>>} ELSE BulkStores)
          /\ userAssets = fetchUserAssetsResult(store, u)
    /\ nextId = Len(store) + 1
    /\ assets = fetchAssetsResult(sdkAssets)
    /\ trackedAssets = updateTrackedAssets(assets, userAssets)
    /\ dashSearch = <<>>
    /\ loading = FALSE
    /\ calls = [c \in CallIds |-> IdleCall]
    /\ driveTracked = getTrackedSymbols(userAssets)
    /\ createdIds = {}
    /\ sdkFailed = FALSE
    /\ bulkCalls = <<>>
    /\ CardUnmounted
    /\ showSearchModal = TRUE
    /\ modalAssets = <<>>
    /\ modalLoading = TRUE
    /\ filteredAssets = <<>>
    /\ modalSearch = <<>>
    /\ selectedType = "all"
    /\ sortBy = "popularity"
    /\ minPrice = <<>>
    /\ maxPrice = <<>>
    /\ bulkMode = FALSE
    /\ selectedAssets = {}
    /\ passedTracked = FALSE
    /\ SubscriptionUnmounted
    /\ RefreshUnmounted
    /\ ServicesIdle

\* the modal's bulk selection and the handleTrackMultipleAssets calls it starts
BulkNext ==
    \/ OpenSearchModal
    \/ CloseSearchModal
    \/ ModalFetchOk
    \/ ToggleBulkMode
    \/ \E a \in CallableAssets : ModalSelectAsset(a)
    \/ toggleSelectAll
    \/ handleBulkTrack
    \/ \E c \in 1..Len(bulkCalls) : BulkCreateOk(c)
    \/ \E c \in 1..Len(bulkCalls) : BulkCreateFail(c)
    \/ \E c \in 1..Len(bulkCalls) : BulkFetchOk(c)
    \/ \E c \in 1..Len(bulkCalls) : BulkFetchFail(c)

SpecBulk == BulkInit /\ [][BulkNext]_vars

\* C22: a single handleTrackMultipleAssets call issues at most one userAssets.create
\* per distinct normalized (upper-cased, trimmed) symbol of its input and none for a
\* symbol already present in the local userAssets, and the addedCount it reports
\* equals the number of creates it issued.
C22_BulkCreatesOncePerNewSymbol ==
    \A c \in 1..Len(bulkCalls) :
        LET call == bulkCalls[c]
            inputSymbols == {normalizedSymbol(call.input[n].symbol) :
                                n \in 1..Len(call.input)}
            localSymbols == {normalizedSymbol(call.local[m].assetSymbol) :
                                m \in 1..Len(call.local)}
        IN  /\ \A i \in 1..Len(call.issued) :
                   /\ call.issued[i] \in inputSymbols
                   /\ call.issued[i] \notin localSymbols
                   /\ \A j \in 1..Len(call.issued) :
                          i # j => call.issued[i] # call.issued[j]
            /\ call.toast = "success" => call.reported = Len(call.issued)
            /\ call.toast = "info" => Len(call.issued) = 0
            /\ call.toast \in {"none", "signIn", "error"} => call.reported = NoCount

\* a call has ended that was given two assets with one normalized symbol, created one
\* record and reported one; and a call has ended that was given an asset whose
\* symbol the local userAssets held and created nothing
C22_Witness ==
    /\ \E c \in 1..Len(bulkCalls) :
           /\ bulkCalls[c].pc = "done"
           /\ Len(bulkCalls[c].input) = 2
           /\ Len(bulkCalls[c].issued) = 1
           /\ bulkCalls[c].toast = "success"
           /\ bulkCalls[c].reported = 1
    /\ \E c \in 1..Len(bulkCalls) :
           /\ bulkCalls[c].pc = "done"
           /\ Len(bulkCalls[c].input) >= 1
           /\ Len(bulkCalls[c].local) >= 1
           /\ bulkCalls[c].issued = <<>>
           /\ bulkCalls[c].toast = "info"

\* ------------------------------------------------------------------ APIService
\* Times are Date.now() readings in milliseconds.  A Map is a function whose domain
\* is the keys set so far.  Cache keys are sequences of strings.

CACHE_DURATION == 5 * 60 * 1000

\* this.config[service].rateLimit
rateLimit(service) ==
    CASE service = "coinGecko" -> 50
      [] service = "alphaVantage" -> 5
      [] service = "newsAPI" -> 100

\* windowSize of checkRateLimit
windowSize(service) == IF service = "newsAPI" THEN 3600000 ELSE 60000

\* requests.filter(time => now - time < windowSize)
recentRequestsOf(requests, service, clock) ==
    SelectSeq(requests, LAMBDA time : clock - time < windowSize(service))

RECURSIVE join(_)
\* symbols.join(',')
join(symbols) ==
    IF Len(symbols) = 0 THEN <<>>
    ELSE IF Len(symbols) = 1 THEN <<symbols[1]>>
    ELSE <<symbols[1], ",">> \o join(Tail(symbols))

\* String.prototype.toLowerCase over the symbols used
symbolToLowerCase(symbol) ==
    CASE symbol = "BTC" -> "btc"
      [] symbol = "Eth" -> "eth"
      [] OTHER -> symbol

cryptoKey(symbols) == <<"crypto_">> \o join(symbols)
stockKey(symbol) == <<"stock_", symbol>>
newsKey(query, limit) == <<"news_", query, "_", limit>>
technicalKey(symbol) == <<"technical_", symbol>>

\* getFromCache's null
NoData == [source |-> "null"]

\* getFromCache with a cache that serves an entry up to and including the instant
\* it turns five minutes old
getFromCacheInclusive(cache, key, clock) ==
    IF key \in DOMAIN cache /\ clock - cache[key].timestamp <= CACHE_DURATION
    THEN cache[key].data
    ELSE NoData

\* getFromCache(key), reading the clock
getFromCache(cache, key, clock) ==
    IF key \in DOMAIN cache /\ clock - cache[key].timestamp < CACHE_DURATION
    THEN cache[key].data
    ELSE NoData

\* setCache(key, data), reading the clock
setCache(cache, key, data, clock) ==
    [k \in DOMAIN cache \cup {key} |->
        IF k = key THEN [data |-> data, timestamp |-> clock] ELSE cache[k]]

\* the data a resolved fetch yields, and what the getFallback* functions return
apiData(key, clock) == [source |-> "api", key |-> key, at |-> clock]
fallbackData(key, clock) == [source |-> "fallback", key |-> key, at |-> clock]

\* the indicators getTechnicalIndicators computes from marketData
indicatorsOf(marketData) == [source |-> "indicators", marketData |-> marketData]

\* one pass of a get*Data function over a cache key: when it looked the key up, how
\* many setCache calls had been made by then, and what became of it
lookupOf(key, clock, stores, outcome, result) ==
    [key |-> key, at |-> clock, order |-> Len(stores), outcome |-> outcome,
     rateChecked |-> FALSE, fetched |-> FALSE, result |-> result]

\* a get*Data call that has not reached an await
NewApiCall(fn, service, keys, technical) ==
    [fn |-> fn, service |-> service, keys |-> keys, technical |-> technical, k |-> 1,
     pc |-> "done", calledAt |-> 0, wakeAt |-> 0, recent |-> <<>>, lookups |-> <<>>]

RECURSIVE advance(_, _, _, _)
\* the function from key k on, up to its next checkRateLimit or to its return: keys
\* the cache serves are passed over
advance(call, cache, stores, clock) ==
    IF call.k > Len(call.keys) THEN [call EXCEPT !.pc = "done"]
    ELSE LET key == call.keys[call.k]
             cached == getFromCache(cache, key, clock)
         IN  IF cached # NoData
             THEN advance([call EXCEPT !.k = @ + 1,
                                       !.lookups = Append(@, lookupOf(key, clock, stores,
                                                                      "cached", cached))],
                          cache, stores, clock)
             ELSE [call EXCEPT !.pc = "rate",
                               !.lookups = Append(@, lookupOf(key, clock, stores,
                                                              "pending", NoData))]

\* checkRateLimit(service) up to its await, or to its return when it does not wait
checkRateLimit(call, requestTimes, clock) ==
    LET recentRequests == recentRequestsOf(requestTimes[call.service], call.service, clock)
        checked == [call EXCEPT !.lookups[Len(call.lookups)].rateChecked = TRUE]
    IN  IF Len(recentRequests) >= rateLimit(call.service)
        THEN [checked EXCEPT !.pc = "wait", !.calledAt = clock,
                             !.wakeAt = clock + (windowSize(call.service)
                                                   - (clock - recentRequests[1])),
                             !.recent = recentRequests]
        ELSE [checked EXCEPT !.pc = "fetch", !.calledAt = clock,
                             !.recent = recentRequests]

\* what the call's get*Data function returns
marketDataOf(call) ==
    SelectSeq([i \in 1..Len(call.lookups) |-> call.lookups[i].result],
              LAMBDA data : data # NoData /\ data.source # "indicators")

\* getTechnicalIndicators has its marketData and has not returned yet
technicalPending(call) ==
    /\ call.pc = "done"
    /\ call.technical # <<>>
    /\ call.lookups[1].outcome = "pending"

\* getTechnicalIndicators after its await: the indicators
technicalResult(call) ==
    [call EXCEPT !.lookups[1].outcome = "computed",
                 !.lookups[1].result = indicatorsOf(marketDataOf(call))]

apiFrame == UNCHANGED <<dashVars, modalVars, bulkVars, cardVars, promoVars, driveVars,
                        forecastVars,
                        themeVars, alertVars, mounted, autoRefresh, refreshInterval,
                        isRefreshing, lastRefresh, timers, nextTimerId, now, runs,
                        lastRefreshBy>>

\* the call runs on from key k with the cache and the stores given, to its next await
\* or to its return; c is its position in apiCalls
runsOn(c, call, cache, stores) ==
    LET moved == advance(call, cache, stores, now)
        checked == IF moved.pc = "rate" THEN checkRateLimit(moved, lastRequestTimes, now)
                   ELSE moved
        final == IF technicalPending(checked) THEN technicalResult(checked) ELSE checked
    IN  /\ apiCalls' = [i \in 1..Max(c, Len(apiCalls)) |-> IF i = c THEN final ELSE apiCalls[i]]
        /\ lastRequestTimes' =
              IF final.pc = "fetch"
              THEN [lastRequestTimes EXCEPT ![final.service] = Append(final.recent, now)]
              ELSE lastRequestTimes
        /\ passedRequests' =
              IF final.pc = "fetch"
              THEN [passedRequests EXCEPT ![final.service] = Append(@, now)]
              ELSE passedRequests
        /\ requestCache' =
              IF technicalPending(checked)
              THEN setCache(cache, final.technical, final.lookups[1].result, now)
              ELSE cache
        /\ cacheStores' =
              IF technicalPending(checked)
              THEN Append(stores, [key |-> final.technical, at |-> now,
                                   data |-> final.lookups[1].result])
              ELSE stores

\* calls are unbounded in the program; the model stops after this many, and lets
\* this many run at a time
MaxApiCalls == 3
MaxInFlight == 2

canCall ==
    /\ Len(apiCalls) < MaxApiCalls
    /\ Cardinality({c \in 1..Len(apiCalls) : apiCalls[c].pc # "done"}) < MaxInFlight

\* getCryptoData(symbols) up to its first await, or to its return
GetCryptoData(symbols) ==
    /\ canCall
    /\ runsOn(Len(apiCalls) + 1,
              NewApiCall("crypto", "coinGecko", <<cryptoKey(symbols)>>, <<>>),
              requestCache, cacheStores)
    /\ apiFrame

\* getStockData(symbols) up to its first await, or to its return
GetStockData(symbols) ==
    /\ canCall
    /\ runsOn(Len(apiCalls) + 1,
              NewApiCall("stock", "alphaVantage",
                         [i \in 1..Len(symbols) |-> stockKey(symbols[i])], <<>>),
              requestCache, cacheStores)
    /\ apiFrame

\* getNewsData(query, limit) up to its first await, or to its return
GetNewsData(query, limit) ==
    /\ canCall
    /\ runsOn(Len(apiCalls) + 1,
              NewApiCall("news", "newsAPI", <<newsKey(query, limit)>>, <<>>),
              requestCache, cacheStores)
    /\ apiFrame

\* getTechnicalIndicators(symbol, type) up to its first await, or to its return
GetTechnicalIndicators(symbol, type) ==
    /\ canCall
    /\ LET key == technicalKey(symbol)
           cached == getFromCache(requestCache, key, now)
           inner == IF type = "crypto"
                    THEN NewApiCall("technical", "coinGecko",
                                    <<cryptoKey(<<symbolToLowerCase(symbol)>>)>>, key)
                    ELSE NewApiCall("technical", "alphaVantage", <<stockKey(symbol)>>, key)
       IN  IF cached # NoData
           THEN runsOn(Len(apiCalls) + 1,
                       [inner EXCEPT !.keys = <<>>,
                                     !.lookups = <<lookupOf(key, now, cacheStores,
                                                            "cached", cached)>>],
                       requestCache, cacheStores)
           ELSE runsOn(Len(apiCalls) + 1,
                       [inner EXCEPT !.lookups = <<lookupOf(key, now, cacheStores,
                                                            "pending", NoData)>>],
                       requestCache, cacheStores)
    /\ apiFrame

\* the setTimeout of checkRateLimit fires: recentRequests.push(now) with the now read
\* before the wait, lastRequestTimes.set, and the fetch is sent
RateLimitWaitEnds(c) ==
    /\ apiCalls[c].pc = "wait"
    /\ now >= apiCalls[c].wakeAt
    /\ apiCalls' = [apiCalls EXCEPT ![c].pc = "fetch"]
    /\ lastRequestTimes' =
          [lastRequestTimes EXCEPT ![apiCalls[c].service] =
              Append(apiCalls[c].recent, apiCalls[c].calledAt)]
    /\ passedRequests' = [passedRequests EXCEPT ![apiCalls[c].service] = Append(@, now)]
    /\ UNCHANGED <<requestCache, cacheStores>>
    /\ apiFrame

\* the lookup the call is at, settled
settled(call, outcome, result) ==
    [call EXCEPT !.k = @ + 1,
                 !.lookups[Len(call.lookups)].outcome = outcome,
                 !.lookups[Len(call.lookups)].fetched = TRUE,
                 !.lookups[Len(call.lookups)].result = result]

\* fetch resolved with data: setCache, and the function goes on
FetchOk(c) ==
    /\ apiCalls[c].pc = "fetch"
    /\ LET call == apiCalls[c]
           key == call.keys[call.k]
           data == apiData(key, now)
       IN  runsOn(c, settled(call, "fetched", data),
                  setCache(requestCache, key, data, now),
                  Append(cacheStores, [key |-> key, at |-> now, data |-> data]))
    /\ apiFrame

\* getStockData: the response has no 'Global Quote': nothing is cached or pushed
FetchNoQuote(c) ==
    /\ apiCalls[c].pc = "fetch"
    /\ apiCalls[c].service = "alphaVantage"
    /\ runsOn(c, settled(apiCalls[c], "noQuote", NoData), requestCache, cacheStores)
    /\ apiFrame

\* fetch rejected, or the response is not ok: the catch returns the fallback data
FetchFail(c) ==
    /\ apiCalls[c].pc = "fetch"
    /\ LET call == apiCalls[c]
       IN  runsOn(c, settled(call, "fallback", fallbackData(call.keys[call.k], now)),
                  requestCache, cacheStores)
    /\ apiFrame

\* time passes, to one of the instants given
ApiClockMoves(instants) ==
    /\ \E t \in instants : t > now /\ now' = t
    /\ UNCHANGED <<dashVars, modalVars, bulkVars, cardVars, promoVars, driveVars,
                   forecastVars, themeVars, alertVars, apiVars, mounted, autoRefresh, refreshInterval,
                   isRefreshing, lastRefresh, timers, nextTimerId, runs, lastRefreshBy>>

\* the service after construction
ApiInit ==
    /\ user = NoUser
    /\ isAuthenticated = FALSE
    /\ DashboardUnmounted
    /\ ModalClosed
    /\ SubscriptionUnmounted
    /\ RefreshUnmounted
    /\ ServicesIdle

\* the arguments the functions are called with
CryptoInputs == {<<"btc">>}
StockInputs == {<<"AAPL">>, <<"AAPL", "MSFT", "GOOG", "AMZN", "TSLA">>}
NewsInputs == {<<"btc", "10">>}
TechnicalInputs == {<<"BTC", "crypto">>, <<"AAPL", "stock">>}

\* ---- the rate limiter, with an API that answers every request with an error ----

RateInstants == {10, 60000}

RateNext ==
    \/ \E symbols \in CryptoInputs : GetCryptoData(symbols)
    \/ \E symbols \in StockInputs : GetStockData(symbols)
    \/ \E input \in NewsInputs : GetNewsData(input[1], input[2])
    \/ \E c \in 1..Len(apiCalls) : RateLimitWaitEnds(c)
    \/ \E c \in 1..Len(apiCalls) : FetchFail(c)
    \/ ApiClockMoves(RateInstants)

SpecRate == ApiInit /\ [][RateNext]_vars

\* the requests of the service that got past checkRateLimit in the window of the
\* service's length that starts at time t
passedInWindow(service, t) ==
    {j \in 1..Len(passedRequests[service]) :
        /\ t <= passedRequests[service][j]
        /\ passedRequests[service][j] < t + windowSize(service)}

\* C23: rate limiting: for each service, the number of requests that get past
\* checkRateLimit within any window of the service's length (60 s for coinGecko and
\* alphaVantage, 1 h for newsAPI) never exceeds its rateLimit (50, 5 and 100), for any
\* timing and interleaving of callers.  A window with the most requests starts at a
\* request, so those windows are the ones counted.
C23_RateLimitHolds ==
    \A service \in Services :
        \A i \in 1..Len(passedRequests[service]) :
            Cardinality(passedInWindow(service, passedRequests[service][i]))
                <= rateLimit(service)

\* ---- the cache, with an API that answers, answers without a quote, or fails; the
\* ---- calls are too few for a rate limit to be reached

CacheInstants == {299999, 300000}

CacheNext ==
    \/ \E symbols \in CryptoInputs : GetCryptoData(symbols)
    \/ GetStockData(<<"AAPL">>)
    \/ \E input \in NewsInputs : GetNewsData(input[1], input[2])
    \/ \E input \in TechnicalInputs : GetTechnicalIndicators(input[1], input[2])
    \/ \E c \in 1..Len(apiCalls) : FetchOk(c)
    \/ \E c \in 1..Len(apiCalls) : FetchNoQuote(c)
    \/ \E c \in 1..Len(apiCalls) : FetchFail(c)
    \/ ApiClockMoves(CacheInstants)

SpecCache == ApiInit /\ [][CacheNext]_vars

\* the lookups of getCryptoData, getStockData and getNewsData, as pairs of call and
\* position
dataLookups ==
    UNION {{<<c, n>> : n \in {m \in 1..Len(apiCalls[c].lookups) :
                                  apiCalls[c].lookups[m].key[1]
                                      \in {"crypto_", "stock_", "news_"}}} :
           c \in 1..Len(apiCalls)}

\* the setCache calls for the key made before the lookup
storesBefore(lookup) ==
    {i \in 1..lookup.order : cacheStores[i].key = lookup.key}

\* the last of them
lastStoreBefore(lookup) ==
    cacheStores[CHOOSE i \in storesBefore(lookup) : \A j \in storesBefore(lookup) : j <= i]

\* the lookup was answered from the cache, with neither checkRateLimit nor fetch
servedFromCache(lookup, data) ==
    /\ lookup.outcome = "cached"
    /\ lookup.result = data
    /\ ~lookup.rateChecked
    /\ ~lookup.fetched

Languages == {"en", "sk"}

\* the entries of translations the card's sentiment text uses (the Slovak l with
\* caron is written l)
translations ==
    [k \in {"analysis.neutral", "analysis.veryPositive", "analysis.positive",
            "analysis.negative", "analysis.veryNegative"} |->
        CASE k = "analysis.neutral" -> [en |-> "Neutral", sk |-> "Neutrálny"]
          [] k = "analysis.veryPositive" -> [en |-> "Very Positive", sk |-> "Velmi pozitívny"]
          [] k = "analysis.positive" -> [en |-> "Positive", sk |-> "Pozitívny"]
          [] k = "analysis.negative" -> [en |-> "Negative", sk |-> "Negatívny"]
          [] k = "analysis.veryNegative" -> [en |-> "Very Negative", sk |-> "Velmi negatívny"]]

\* t(key): translations[key]?.[language] || key
t(key, lang) == IF key \in DOMAIN translations THEN translations[key][lang] ELSE key

getSentimentColor(score) ==
    IF score > 30 THEN "text-emerald-400"
    ELSE IF score < -30 THEN "text-red-400"
    ELSE "text-amber-400"

getSentimentBg(score) ==
    IF score > 30 THEN "bg-emerald-500/20"
    ELSE IF score < -30 THEN "bg-red-500/20"
    ELSE "bg-amber-500/20"

getSentimentText(score, lang) ==
    IF score > 60 THEN t("analysis.veryPositive", lang)
    ELSE IF score > 30 THEN t("analysis.positive", lang)
    ELSE IF score > -30 THEN t("analysis.neutral", lang)
    ELSE IF score > -60 THEN t("analysis.negative", lang)
    ELSE t("analysis.veryNegative", lang)

\* the Enhanced Sentiment Analysis block of the card
sentimentView(score, lang) ==
    [color |-> getSentimentColor(score), bg |-> getSentimentBg(score),
     text |-> getSentimentText(score, lang)]

\* the language as localStorage holds it
languageText(lang) == [kind |-> "text", json |-> FALSE, empty |-> FALSE, language |-> lang]

\* the sentiment scores of the assets shown: [-1, 1] in steps of 0.01
CardScores == -100..100

cardFrame == UNCHANGED <<dashVars, modalVars, bulkVars, promoVars, refreshVars, loadResult,
                         setItemThrew, forecastVars, themeVars, alertVars, apiVars>>

\* the card's asset arrives with another sentimentScore: the card renders again
SentimentScoreChanges(score) ==
    /\ cardMounted
    /\ score # cardScore
    /\ cardScore' = score
    /\ cardView' = sentimentView(score, language)
    /\ UNCHANGED <<cardMounted, language, localStorage>>
    /\ cardFrame

\* LanguageProvider's handleSetLanguage: setLanguage, localStorage.setItem; the card
\* renders again
handleSetLanguage(newLanguage) ==
    /\ cardMounted
    /\ language' = newLanguage
    /\ localStorage' = [localStorage EXCEPT ![LanguageKey] = languageText(newLanguage)]
    /\ cardView' = sentimentView(cardScore, newLanguage)
    /\ UNCHANGED <<cardMounted, cardScore>>
    /\ cardFrame

\* a card has rendered for an asset, in the provider's initial language
CardInit ==
    /\ user = NoUser
    /\ isAuthenticated = FALSE
    /\ sdkAssets = <<>>
    /\ store = <<>>
    /\ nextId = 1
    /\ assets = <<>>
    /\ userAssets = <<>>
    /\ trackedAssets = <<>>
    /\ dashSearch = <<>>
    /\ loading = TRUE
    /\ calls = [c \in CallIds |-> IdleCall]
    /\ driveTracked = <<>>
    /\ createdIds = {}
    /\ sdkFailed = FALSE
    /\ bulkCalls = <<>>
    /\ ModalClosed
    /\ SubscriptionUnmounted
    /\ RefreshUnmounted
    /\ ServicesIdle
    /\ cardMounted = TRUE
    /\ cardScore \in CardScores
    /\ language = "en"
    /\ cardView = sentimentView(cardScore, "en")

CardNext ==
    \/ \E score \in CardScores : SentimentScoreChanges(score)
    \/ \E lang \in Languages : handleSetLanguage(lang)

SpecCard == CardInit /\ [][CardNext]_vars

\* the classes of the three colours
amber == {"text-amber-400", "bg-amber-500/20"}
emerald == {"text-emerald-400", "bg-emerald-500/20"}
red == {"text-red-400", "bg-red-500/20"}

\* C25: on AssetCard the sentiment label and the sentiment colour agree for every
\* sentimentScore in [-1, 1]: the text is 'Neutral' exactly when the colour is amber,
\* 'Positive' or 'Very Positive' exactly when it is emerald, and 'Negative' or
\* 'Very Negative' exactly when it is red, the boundary values -0.6, -0.3, 0.3 and
\* 0.6 included.  The texts are those of the language shown.
C25_LabelAndColourAgree ==
    cardMounted =>
        /\ cardView.text = t("analysis.neutral", language)
              <=> {cardView.color, cardView.bg} \subseteq amber
        /\ cardView.text \in {t("analysis.positive", language),
                              t("analysis.veryPositive", language)}
              <=> {cardView.color, cardView.bg} \subseteq emerald
        /\ cardView.text \in {t("analysis.negative", language),
                              t("analysis.veryNegative", language)}
              <=> {cardView.color, cardView.bg} \subseteq red
====
